---- MODULE Spec2Model ----
(***************************************************************************)
(* RegionAnalyzer of the NOAA coral-bleaching daily analysis               *)
(* (src/04_percentile_climatology.py, the same class in                    *)
(* src/05_percentile_climatology.py).                                      *)
(*                                                                         *)
(* Numbers.  The program computes in floating point; the model computes    *)
(* in exact fixed point with finite values only:                           *)
(*   - a value of an HS file is an integer count of tenths of a degree;    *)
(*   - hs_90 is a count of hundredths of a degree (the linear              *)
(*     interpolation of the 90th percentile between two neighbouring       *)
(*     tenths needs one more decimal digit);                               *)
(*   - daily_stress and dhw are counts of 1/700 degree-week, so that       *)
(*     hs_90 / 7.0 is exact: the count of a daily_stress is the count of   *)
(*     its hs_90;                                                          *)
(*   - SST and SSTA values are integer degrees, -999 is the sentinel;      *)
(*   - a coordinate mean is a reduced fraction <<numerator, denominator>>. *)
(***************************************************************************)
EXTENDS Integers, Sequences, FiniteSets, TLC

VARIABLES
    stress_window,   \* self.stress_window, deque(maxlen=84)
    baa_window,      \* self.baa_window, deque(maxlen=7)
    center_lon,      \* self.center_lon
    center_lat,      \* self.center_lat
    coord_set,       \* self.coord_set
    call,            \* the arguments of the last process_day call
    ret,             \* what the last process_day call returned
    on_fresh,        \* history: the last call was the first one of the analyzer
    hist,            \* history: one entry for every record-returning call
    changes,         \* history: how often the HS file differed from the call before
    mmm,             \* self.mmm
    monthly_means,   \* self.monthly_means
    pc,              \* where main() stands
    clim_input,      \* history: what calculate_climatology_data() found on disk
    clim_data_store, \* main: clim_data_store
    listing,         \* the names os.listdir() has yielded so far, in its order
    files_map,       \* main: files_map, as a function of its keys
    site_keys,       \* the keys of files_map in insertion order
    code,            \* main: the site of the running loop of PART 3
    sorted_dates,    \* main: sorted_dates, the dates of the site still to come
    results_buffer,  \* main: results_buffer
    fed,             \* history: the dt_obj of every process_day call of the site
    reports,         \* the report files written, one for a site
    fleet            \* analyzers that run side by side, each with what it returned

analyzerVars == <<stress_window, baa_window, center_lon, center_lat, coord_set,
                  call, ret, on_fresh, hist, changes>>

mainVars == <<mmm, monthly_means, pc, clim_input, clim_data_store, listing,
              files_map, site_keys, code, sorted_dates, results_buffer, fed,
              reports, fleet>>

vars == <<analyzerVars, mainVars>>

\* ---------------------------------------------------------------- bounds
\* record-returning calls of one behaviour of Spec
MaxRecords == 2
\* record-returning calls of one behaviour of SpecWeek
MaxWeekRecords == 8
\* record-returning calls of one behaviour of SpecLong
MaxLongRecords == 85
\* changes of HS file between consecutive calls in one behaviour of SpecLong
MaxChanges == 1
\* names in the listing of one behaviour of SpecScan
MaxListed == 3
\* names in the listing of one behaviour of SpecMain
MaxMainListed == 4
\* days of the daily series of SpecSeries: two more than the 84 slots
MaxSeriesDays == 86
\* record-returning calls in one behaviour of SpecThaw
MaxThawRecords == 86
\* calls on each of the two analyzers of SpecTwin
MaxTwinCalls == 3
\* calls on each of the three analyzers of SpecFleet
MaxFleetCalls == 4

\* ------------------------------------------------------ program constants
\* deque(maxlen=84)
StressMaxLen == 84
\* deque(maxlen=7)
BaaMaxLen == 7
\* the -999.0 every SST/SSTA field starts from
Sentinel == -999
\* hs_90 / 7.0
DaysPerWeek == 7
\* the literal 1.0 of `hs_90 >= 1.0`, in hundredths of a degree
HsOne == 100
\* the literals 4.0 and 8.0 of the DHW cut-offs, in 1/700 degree-week
DhwFour == 4 * DaysPerWeek * HsOne
DhwEight == 8 * DaysPerWeek * HsOne

\* ------------------------------------------------------------- arithmetic
Abs(x) == IF x < 0 THEN -x ELSE x

RECURSIVE Gcd(_, _)
Gcd(a, b) == IF b = 0 THEN a ELSE Gcd(b, a % b)

RECURSIVE SumRange(_, _, _)
\* s[lo] + ... + s[hi], by halves
SumRange(s, lo, hi) ==
    IF lo > hi THEN 0
    ELSE IF lo = hi THEN s[lo]
    ELSE LET mid == (lo + hi) \div 2
         IN  SumRange(s, lo, mid) + SumRange(s, mid + 1, hi)

\* sum(...) of a sequence
SumSeq(s) == SumRange(s, 1, Len(s))

RECURSIVE MaxRange(_, _, _)
\* the largest of s[lo], ..., s[hi], by halves
MaxRange(s, lo, hi) ==
    IF lo = hi THEN s[lo]
    ELSE LET mid == (lo + hi) \div 2
             a   == MaxRange(s, lo, mid)
             b   == MaxRange(s, mid + 1, hi)
         IN  IF a >= b THEN a ELSE b

\* max(...) of a non-empty sequence
MaxSeq(s) == MaxRange(s, 1, Len(s))

RECURSIVE MinRange(_, _, _)
\* the smallest of s[lo], ..., s[hi], by halves
MinRange(s, lo, hi) ==
    IF lo = hi THEN s[lo]
    ELSE LET mid == (lo + hi) \div 2
             a   == MinRange(s, lo, mid)
             b   == MinRange(s, mid + 1, hi)
         IN  IF a <= b THEN a ELSE b

\* min(...) of a non-empty sequence
MinSeq(s) == MinRange(s, 1, Len(s))

RECURSIVE Insert(_, _)
Insert(x, s) ==
    IF s = <<>> THEN <<x>>
    ELSE IF x <= s[1] THEN <<x>> \o s
    ELSE <<s[1]>> \o Insert(x, Tail(s))

RECURSIVE SortAsc(_)
\* the values in ascending order
SortAsc(s) == IF s = <<>> THEN <<>> ELSE Insert(s[1], SortAsc(Tail(s)))

\* Series.mean(): the arithmetic mean, as a reduced fraction
Mean(col) ==
    LET n == SumSeq(col)
        d == Len(col)
        g == Gcd(Abs(n), d)
    IN  <<n \div g, d \div g>>

\* the last k entries of s (all of s when it is shorter)
LastK(s, k) == IF Len(s) <= k THEN s ELSE SubSeq(s, Len(s) - k + 1, Len(s))

\* ------------------------------------------------------------ input files
(***************************************************************************)
(* An HS file is [rows, fault].  A row is [lon, lat, val, na]; na says     *)
(* that a field of the row is missing, so that dropna() removes the row.   *)
(* fault names what is wrong with the file as a whole:                     *)
(*   "none"  nothing;                                                      *)
(*   "read"  pd.read_csv raises (no such file, an empty file);             *)
(*   "lon", "lat", "val"  the column holds a token that is no number, so   *)
(*           that the first numeric reduction of that column raises.       *)
(* An SST or SSTA file is [present, fault, vals]; present is the test      *)
(* `file_sst and os.path.exists(file_sst)`, fault is "none" or "read",     *)
(* vals the value column (read_csv keeps every row: no dropna here).       *)
(***************************************************************************)
Row(lon, lat, val) == [lon |-> lon, lat |-> lat, val |-> val, na |-> FALSE]

NaRow(lon, lat) == [lon |-> lon, lat |-> lat, val |-> 0, na |-> TRUE]

HsFile(rows, fault) == [rows |-> rows, fault |-> fault]

XyzFile(vals, fault) == [present |-> TRUE, fault |-> fault, vals |-> vals]

NoFile == [present |-> FALSE, fault |-> "none", vals |-> <<>>]

\* a slip: the frame is used as read, dropna() forgotten
DropNaKeepsAll(rows) == rows

\* df.dropna()
DropNa(rows) == SelectSeq(rows, LAMBDA r : ~r.na)

\* one column of a frame
Col(rows, f) == [i \in 1..Len(rows) |-> rows[i][f]]

\* -------------------------------------------------------- RegionAnalyzer
\* np.percentile(hs_values, 90), method 'linear': the value at the virtual
\* index 0.9 * (n - 1) of the sorted values, in hundredths (vals: tenths)
Percentile90(vals) ==
    LET s  == SortAsc(vals)
        h  == 9 * (Len(s) - 1)
        lo == (h \div 10) + 1
        g  == h % 10
    IN  IF g = 0 THEN 10 * s[lo]
        ELSE 10 * s[lo] + g * (s[lo + 1] - s[lo])

\* a slip: among equal distances the last position
ArgMinAbsLast(vals, hs_90) ==
    LET d(i) == Abs(10 * vals[i] - hs_90)
        best == CHOOSE i \in 1..Len(vals) :
                    /\ \A j \in 1..Len(vals) : d(i) <= d(j)
                    /\ \A j \in (i + 1)..Len(vals) : d(j) > d(i)
    IN  best - 1

\* (np.abs(hs_values - hs_90)).argmin(): the first 0-based position of the
\* smallest distance
ArgMinAbs(vals, hs_90) ==
    LET d(i) == Abs(10 * vals[i] - hs_90)
        best == CHOOSE i \in 1..Len(vals) :
                    /\ \A j \in 1..Len(vals) : d(i) <= d(j)
                    /\ \A j \in 1..(i - 1) : d(j) > d(i)
    IN  best - 1

\* a slip: a plain list, which never evicts
DequeAppendNoEvict(w, x, maxlen) == w \o <<x>>

\* a slip: the oldest entry leaves one call late
DequeAppendOneOver(w, x, maxlen) ==
    IF Len(w) > maxlen THEN Tail(w) \o <<x>> ELSE w \o <<x>>

\* a slip: the value is pushed a second time
DequeAppendTwice(w, x, maxlen) ==
    IF Len(w) + 1 >= maxlen THEN SubSeq(w, 3, Len(w)) \o <<x, x>>
    ELSE w \o <<x, x>>

\* deque(maxlen=n).append(x): the oldest entry leaves once the deque is full
DequeAppend(w, x, maxlen) ==
    IF Len(w) >= maxlen THEN Tail(w) \o <<x>> ELSE w \o <<x>>

\* a slip: `hs_90 > 1.0` for `hs_90 >= 1.0`
DailyStressStrict(hs_90) == IF hs_90 > HsOne THEN hs_90 ELSE 0

\* daily_stress: hs_90 / 7.0 from 1.0 degree on, else 0.0 (in 1/700
\* degree-week the quotient hs_90 / 7.0 has the count of hs_90)
DailyStress(hs_90) == IF hs_90 >= HsOne THEN hs_90 ELSE 0

\* a slip: `current_dhw <= 4.0` for `current_dhw < 4.0`
AlertLevelLate(hs_90, dhw) ==
    IF hs_90 <= 0 THEN 0
    ELSE IF 0 < hs_90 /\ hs_90 < HsOne THEN 1
    ELSE IF dhw <= DhwFour THEN 2
    ELSE IF dhw < DhwEight THEN 3
    ELSE 4

\* a slip: no Watch level, anything below 1.0 is No Stress
AlertLevelNoWatch(hs_90, dhw) ==
    IF hs_90 < HsOne THEN 0
    ELSE IF dhw < DhwFour THEN 2
    ELSE IF dhw < DhwEight THEN 3
    ELSE 4

\* daily_alert_level from hs_90 and the DHW that includes today
AlertLevel(hs_90, dhw) ==
    IF hs_90 <= 0 THEN 0
    ELSE IF 0 < hs_90 /\ hs_90 < HsOne THEN 1
    ELSE IF dhw < DhwFour THEN 2
    ELSE IF DhwFour <= dhw /\ dhw < DhwEight THEN 3
    ELSE IF dhw >= DhwEight THEN 4
    ELSE 0

\* a slip: hs_90 as it is
ReportedHsRaw(hs_90) == hs_90

\* max(0, hs_90)
ReportedHs(hs_90) == IF hs_90 > 0 THEN hs_90 ELSE 0

\* a slip: the three fields start from 0.0
SstFieldsZero(sst, idx) ==
    LET none == [sst_90 |-> 0, sst_min |-> 0, sst_max |-> 0]
    IN  IF ~sst.present THEN none
        ELSE IF sst.fault = "read" THEN none
        ELSE IF idx >= Len(sst.vals) THEN none
        ELSE [sst_90  |-> sst.vals[idx + 1],
              sst_min |-> MinSeq(sst.vals),
              sst_max |-> MaxSeq(sst.vals)]

\* a different design: one try block for each of the three fields
SstFieldsPerField(sst, idx) ==
    LET read == sst.present /\ sst.fault # "read"
    IN  [sst_90  |-> IF read /\ idx < Len(sst.vals)
                     THEN sst.vals[idx + 1] ELSE Sentinel,
         sst_min |-> IF read /\ sst.vals # <<>>
                     THEN MinSeq(sst.vals) ELSE Sentinel,
         sst_max |-> IF read /\ sst.vals # <<>>
                     THEN MaxSeq(sst.vals) ELSE Sentinel]

\* sst_val, sst_min, sst_max: one try block, the three assignments in this
\* order, `except: pass` leaving the sentinels of whatever was not assigned
SstFields(sst, idx) ==
    LET none == [sst_90 |-> Sentinel, sst_min |-> Sentinel, sst_max |-> Sentinel]
    IN  IF ~sst.present THEN none
        ELSE IF sst.fault = "read" THEN none
        ELSE IF idx >= Len(sst.vals) THEN none
        ELSE [sst_90  |-> sst.vals[idx + 1],
              sst_min |-> MinSeq(sst.vals),
              sst_max |-> MaxSeq(sst.vals)]

\* ssta_val
SstaField(ssta, idx) ==
    IF ~ssta.present THEN Sentinel
    ELSE IF ssta.fault = "read" THEN Sentinel
    ELSE IF idx >= Len(ssta.vals) THEN Sentinel
    ELSE ssta.vals[idx + 1]

\* Where process_day leaves its try body, for the HS file `hs` and the
\* coord_set flag `fixed`: a return, or the statement that raises.
Stage(hs, fixed) ==
    IF hs.fault = "read" THEN "read_error"
    ELSE IF DropNa(hs.rows) = <<>> THEN "empty"
    ELSE IF ~fixed /\ hs.fault = "lon" THEN "lon_error"
    ELSE IF ~fixed /\ hs.fault = "lat" THEN "lat_error"
    ELSE IF hs.fault = "val" THEN "percentile_error"
    ELSE "record"

\* the stages in which `self.center_lon = df_hs['lon'].mean()` has run
AssignsLon(stage) == stage \in {"lat_error", "percentile_error", "record"}

\* the stages in which center_lat and coord_set have been assigned as well
AssignsLat(stage) == stage \in {"percentile_error", "record"}

\* a slip: no `if not self.coord_set:`, the centroid follows every day
CentroidAfterEveryDay(lon, lat, fixed, stage, df_hs) ==
    [lon   |-> IF AssignsLon(stage) THEN Mean(Col(df_hs, "lon")) ELSE lon,
     lat   |-> IF AssignsLat(stage) THEN Mean(Col(df_hs, "lat")) ELSE lat,
     fixed |-> fixed \/ AssignsLat(stage)]

\* `if not self.coord_set:` and its three assignments, as far as the stage
\* lets them run: the centroid fields after the call
CentroidAfter(lon, lat, fixed, stage, df_hs) ==
    IF fixed THEN [lon |-> lon, lat |-> lat, fixed |-> TRUE]
    ELSE [lon   |-> IF AssignsLon(stage) THEN Mean(Col(df_hs, "lon")) ELSE lon,
          lat   |-> IF AssignsLat(stage) THEN Mean(Col(df_hs, "lat")) ELSE lat,
          fixed |-> AssignsLat(stage)]

\* a slip: today's level, not the 7-day composite
FinalBaaToday(levels) == levels[Len(levels)]

\* final_baa = max(self.baa_window) if self.baa_window else 0
FinalBaa(levels) == IF levels # <<>> THEN MaxSeq(levels) ELSE 0

\* the value process_day returns as None; stage says where it gave up
Skipped(stage) == [kind |-> "skipped", stage |-> stage]

\* process_day(date_obj, file_hs, file_sst, file_ssta).  The returned
\* record carries two history fields the program does not return: p90, the
\* hs_90 before max(0, .), and idx, the index idx_p90.  An entry of hist is
\* the day's daily_stress, daily_alert_level, dhw and baa, and the mean
\* coordinates of the day's HS sample.  date_obj is copied into the record
\* and read by nothing else in process_day; it is left out here.
ProcessDay(hs, sst, ssta) ==
    LET stage  == Stage(hs, coord_set)
        df_hs  == DropNa(hs.rows)
        centre == CentroidAfter(center_lon, center_lat, coord_set, stage, df_hs)
    IN  /\ call' = [hs |-> hs, sst |-> sst, ssta |-> ssta]
        /\ on_fresh' = (ret.kind = "init")
        /\ center_lon' = centre.lon
        /\ center_lat' = centre.lat
        /\ coord_set' = centre.fixed
        /\ IF stage = "record"
           THEN LET hs_values    == Col(df_hs, "val")
                    hs_90        == Percentile90(hs_values)
                    idx_p90      == ArgMinAbs(hs_values, hs_90)
                    sstf         == SstFields(sst, idx_p90)
                    daily_stress == DailyStress(hs_90)
                    window       == DequeAppend(stress_window, daily_stress,
                                                StressMaxLen)
                    current_dhw  == SumSeq(window)
                    level        == AlertLevel(hs_90, current_dhw)
                    levels       == DequeAppend(baa_window, level, BaaMaxLen)
                    final_baa    == FinalBaa(levels)
                IN  /\ stress_window' = window
                    /\ baa_window' = levels
                    /\ hist' = Append(hist, [stress |-> daily_stress,
                                             level  |-> level,
                                             dhw    |-> current_dhw,
                                             baa    |-> final_baa,
                                             centre |-> <<Mean(Col(df_hs, "lon")),
                                                          Mean(Col(df_hs, "lat"))>>])
                    /\ ret' = [kind    |-> "record",
                               sst_min |-> sstf.sst_min,
                               sst_max |-> sstf.sst_max,
                               sst_90  |-> sstf.sst_90,
                               ssta_90 |-> SstaField(ssta, idx_p90),
                               hs_90   |-> ReportedHs(hs_90),
                               dhw     |-> current_dhw,
                               baa     |-> final_baa,
                               p90     |-> hs_90,
                               idx     |-> idx_p90]
           ELSE /\ ret' = Skipped(stage)
                /\ UNCHANGED <<stress_window, baa_window, hist>>

\* a dict without keys, and d[k] = v
EmptyMap == [k \in {} |-> 0]

MapPutIfAbsent(d, k, v) ==
    [x \in DOMAIN d \cup {k} |-> IF x \in DOMAIN d THEN d[x] ELSE v]

MapPut(d, k, v) == [x \in DOMAIN d \cup {k} |-> IF x = k THEN v ELSE d[x]]

\* {'mmm': 0.0, 'monthly_means': [0.0]*12}
ZeroBaseline == [mmm |-> 0, monthly_means |-> [i \in 1..12 |-> 0]]

\* main() is not running: the analyzer is driven directly
NoMain ==
    /\ pc = "analyzer"
    /\ clim_input = "none"
    /\ clim_data_store = EmptyMap
    /\ listing = <<>>
    /\ files_map = EmptyMap
    /\ site_keys = <<>>
    /\ code = "none"
    /\ sorted_dates = <<>>
    /\ results_buffer = <<>>
    /\ fed = <<>>
    /\ reports = EmptyMap

\* RegionAnalyzer.__init__, the fields of the windows and of the centroid
NewWindows ==
    /\ stress_window = <<>>
    /\ baa_window = <<>>
    /\ center_lat = <<0, 1>>
    /\ center_lon = <<0, 1>>
    /\ coord_set = FALSE
    /\ call = [hs |-> HsFile(<<>>, "read"), sst |-> NoFile, ssta |-> NoFile]
    /\ ret = [kind |-> "init"]
    /\ on_fresh = FALSE
    /\ hist = <<>>
    /\ changes = 0

\* RegionAnalyzer.__init__ with the default climatology of main
Init ==
    /\ NewWindows
    /\ mmm = ZeroBaseline.mmm
    /\ monthly_means = ZeroBaseline.monthly_means
    /\ NoMain
    /\ fleet = EmptyMap

\* ------------------------------------------------------------ the inputs
\* three pixels of one site, and the same pixels of a site one degree east
Pixels(a, b, c) == <<Row(115, -8, a), Row(116, -8, b), Row(117, -9, c)>>

PixelsEast(a, b, c) == <<Row(116, -8, a), Row(117, -8, b), Row(118, -9, c)>>

\* every HS value 0.5: hs_90 = 0.5
HsHalf == HsFile(Pixels(5, 5, 5), "none")

\* hs_90 = -0.36, interpolated between -1.0 and -0.2
HsCool == HsFile(Pixels(-30, -2, -10), "none")

\* hs_90 = 0.0
HsZero == HsFile(Pixels(0, -5, 0), "none")

\* hs_90 = 1.0
HsOneDegree == HsFile(Pixels(5, 10, 10), "none")

\* hs_90 = 2.4, interpolated between 2.0 and 2.5
HsWarm == HsFile(Pixels(25, 10, 20), "none")

\* hs_90 = 14.0: DHW 2.0 a day
HsHot14 == HsFile(Pixels(100, 140, 140), "none")

\* hs_90 = 28.0: DHW 4.0 a day
HsHot28 == HsFile(Pixels(100, 280, 280), "none")

\* hs_90 = 56.0: DHW 8.0 a day
HsHot56 == HsFile(<<Row(115, -8, 560), Row(116, -8, 560)>>, "none")

\* the first row misses its value: hs_90 = 0.5 over the two rows left
HsGap == HsFile(<<NaRow(115, -8), Row(116, -8, 5), Row(117, -9, 5)>>, "none")

\* every row misses its value: empty after dropna()
HsAllNa == HsFile(<<NaRow(115, -8), NaRow(116, -8)>>, "none")

\* no such file, or an empty one: read_csv raises
HsUnreadable == HsFile(<<>>, "read")

\* a longitude, a latitude, a value that is no number
HsBadLon == HsFile(PixelsEast(5, 10, 10), "lon")

HsBadLat == HsFile(PixelsEast(5, 10, 10), "lat")

HsBadVal == HsFile(PixelsEast(5, 10, 10), "val")

\* a value that is no number in rows that all miss their longitude
HsBadValAllNa == HsFile(<<NaRow(116, -8), NaRow(117, -8)>>, "val")

HsFiles ==
    {HsHalf, HsCool, HsZero, HsOneDegree, HsHot14, HsHot28, HsGap,
     HsAllNa, HsUnreadable, HsBadLon, HsBadLat, HsBadVal, HsBadValAllNa}

\* an SST value and an SSTA value for each of the three pixels
SstFull == XyzFile(<<28, 30, 29>>, "none")

SstaFull == XyzFile(<<-1, 2, 0>>, "none")

\* the same files cut after their first row
SstShort == XyzFile(<<27>>, "none")

SstaShort == XyzFile(<<1>>, "none")

\* an empty SST file: read_csv raises
SstEmpty == XyzFile(<<>>, "read")

\* the SST file and the SSTA file that come with one HS file
SampleFiles ==
    {<<NoFile, NoFile>>, <<NoFile, SstaFull>>, <<SstFull, NoFile>>,
     <<SstFull, SstaFull>>, <<SstShort, SstaFull>>, <<SstShort, SstaShort>>,
     <<SstEmpty, SstaFull>>}

WeekHsFiles == {HsCool, HsHot14, HsHot56, HsAllNa}

LongHsFiles == {HsHalf, HsWarm, HsUnreadable}

\* ------------------------------------------------------ the specifications
\* calls on any HS file with any pair of sample files, up to MaxRecords
\* records
Next ==
    \E hs \in HsFiles, files \in SampleFiles :
        /\ Len(hist) < MaxRecords
        /\ ProcessDay(hs, files[1], files[2])
        /\ UNCHANGED <<changes, mainVars>>

Spec == Init /\ [][Next]_vars

\* more records than the 7-slot window holds, HS files only
NextWeek ==
    \E hs \in WeekHsFiles :
        /\ Len(hist) < MaxWeekRecords
        /\ ProcessDay(hs, NoFile, NoFile)
        /\ UNCHANGED <<changes, mainVars>>

SpecWeek == Init /\ [][NextWeek]_vars

\* more records than the 84-slot window holds, the HS file changing at most
\* MaxChanges times from one call to the next
NextLong ==
    \E hs \in LongHsFiles :
        LET changed == (ret.kind # "init" /\ hs # call.hs)
        IN  /\ Len(hist) < MaxLongRecords
            /\ changed => changes < MaxChanges
            /\ ProcessDay(hs, NoFile, NoFile)
            /\ changes' = IF changed THEN changes + 1 ELSE changes
            /\ UNCHANGED mainVars

SpecLong == Init /\ [][NextLong]_vars

\* the HS files of the n-th call of SpecThaw: two days that may be hot, 77
\* days without stress, a day that may reach 1.0 degree, 4 days without
\* stress, and then the days on which the first days leave the window
ThawHsFiles(n) ==
    IF n <= 2 THEN {HsHot28, HsHot56, HsCool, HsHalf}
    ELSE IF n = StressMaxLen - 4 THEN {HsOneDegree, HsZero}
    ELSE IF n <= StressMaxLen THEN {HsZero}
    ELSE {HsZero, HsHalf, HsCool}

\* heat that leaves the 84-slot window while its level is in the 7-slot
\* window
NextThaw ==
    \E hs \in ThawHsFiles(Len(hist) + 1) :
        /\ Len(hist) < MaxThawRecords
        /\ ProcessDay(hs, NoFile, NoFile)
        /\ UNCHANGED <<changes, mainVars>>

SpecThaw == Init /\ [][NextThaw]_vars

\* ------------------------------------------- calculate_climatology_data
\* SITES.keys(), in the order of the dict
Sites == <<"GM", "GN", "NP">>

\* np.nan: a value below every mean, which no mean takes
NaN == -99999

IsNan(x) == x = NaN

\* one of MONTH_VARS in the clipped data set: whether the variable is there,
\* and its spatial mean in hundredths of a degree (NaN if every pixel is NaN)
Month(present, mean) == [present |-> present, mean |-> mean]

\* the loop over MONTH_VARS: site_means
SiteMeans(months) ==
    [i \in 1..Len(months) |-> IF months[i].present THEN months[i].mean ELSE NaN]

\* clean_means = [x for x in site_means if not np.isnan(x)]
CleanMeans(site_means) == SelectSeq(site_means, LAMBDA x : ~IsNan(x))

\* a different design: the maximum of the months that are there
SiteBaselinePartial(months) ==
    LET clean_means == CleanMeans(SiteMeans(months))
    IN  IF clean_means # <<>>
        THEN [made |-> TRUE,
              entry |-> [mmm |-> MaxSeq(clean_means), monthly_means |-> clean_means]]
        ELSE [made |-> FALSE, entry |-> ZeroBaseline]

\* a slip: mmm is the mean of the last month
SiteBaselineLast(months) ==
    LET clean_means == CleanMeans(SiteMeans(months))
    IN  IF Len(clean_means) = 12
        THEN [made |-> TRUE,
              entry |-> [mmm |-> clean_means[12], monthly_means |-> clean_means]]
        ELSE [made |-> FALSE, entry |-> ZeroBaseline]

\* `if len(clean_means) == 12:` and its two branches: whether an entry of
\* clim_results is made, and the entry
SiteBaseline(months) ==
    LET clean_means == CleanMeans(SiteMeans(months))
    IN  IF Len(clean_means) = 12
        THEN [made |-> TRUE,
              entry |-> [mmm |-> MaxSeq(clean_means), monthly_means |-> clean_means]]
        ELSE [made |-> FALSE, entry |-> ZeroBaseline]

\* what the function finds for one site: the shapefile ("ok", "missing",
\* "unreadable": gpd.read_file raises), whether rio.clip succeeds, and the
\* twelve months of the clipped data set
SiteInput(shp, clip, months) == [shp |-> shp, clip |-> clip, months |-> months]

\* what the function finds on disk: the NetCDF file ("ok", "missing",
\* "unreadable": xr.open_dataset raises) and the three sites
ClimInput(nc, gm, gn, np) ==
    [nc |-> nc, site |-> [c \in {"GM", "GN", "NP"} |->
                            IF c = "GM" THEN gm ELSE IF c = "GN" THEN gn ELSE np]]

\* `for code, shp_name in SITES.items():` from the i-th site on.  An
\* unreadable shapefile raises outside the inner try: the outer except
\* returns {} whatever clim_results holds.
RECURSIVE ClimLoop(_, _, _)
ClimLoop(input, i, clim_results) ==
    IF i > Len(Sites) THEN clim_results
    ELSE LET c  == Sites[i]
             si == input.site[c]
             b  == SiteBaseline(si.months)
         IN  IF si.shp = "missing" THEN ClimLoop(input, i + 1, clim_results)
             ELSE IF si.shp = "unreadable" THEN EmptyMap
             ELSE IF ~si.clip THEN ClimLoop(input, i + 1, clim_results)
             ELSE IF b.made
                  THEN ClimLoop(input, i + 1, MapPut(clim_results, c, b.entry))
             ELSE ClimLoop(input, i + 1, clim_results)

\* calculate_climatology_data()
CalculateClimatologyData(input) ==
    IF input.nc # "ok" THEN EmptyMap ELSE ClimLoop(input, 1, EmptyMap)

\* main() down to the listing of the input folder: PART 1, and the return
\* if the input folder is not there
Part1(input, xyz_exists) ==
    /\ pc = "part1"
    /\ clim_input' = input
    /\ clim_data_store' = CalculateClimatologyData(input)
    /\ pc' = IF xyz_exists THEN "scan" ELSE "done"
    /\ UNCHANGED <<analyzerVars, mmm, monthly_means, listing, files_map,
                   site_keys, code, sorted_dates, results_buffer, fed, reports, fleet>>

\* main() is called; no analyzer exists yet
InitMain ==
    /\ NewWindows
    /\ mmm = ZeroBaseline.mmm
    /\ monthly_means = ZeroBaseline.monthly_means
    /\ pc = "part1"
    /\ clim_input = "none"
    /\ clim_data_store = EmptyMap
    /\ listing = <<>>
    /\ files_map = EmptyMap
    /\ site_keys = <<>>
    /\ code = "none"
    /\ sorted_dates = <<>>
    /\ results_buffer = <<>>
    /\ fed = <<>>
    /\ reports = EmptyMap
    /\ fleet = EmptyMap

\* twelve monthly means, the warmest in April
MeansApril ==
    <<2850, 2870, 2900, 2920, 2890, 2840, 2790, 2760, 2780, 2830, 2880, 2890>>

\* the warmest month is the first, the last
MeansJanuary == [MeansApril EXCEPT ![1] = 2950]

MeansDecember == [MeansApril EXCEPT ![12] = 2950]

\* every variable there, every mean a number
Complete(means) == [i \in 1..12 |-> Month(TRUE, means[i])]

\* the variable of month k is not in the data set
WithoutVar(means, k) == [Complete(means) EXCEPT ![k] = Month(FALSE, NaN)]

\* the mean of month k is NaN
WithNan(means, k) == [Complete(means) EXCEPT ![k] = Month(TRUE, NaN)]

MonthSets ==
    {Complete(MeansApril), Complete(MeansJanuary), Complete(MeansDecember),
     WithoutVar(MeansApril, 4), WithoutVar(MeansJanuary, 12),
     WithNan(MeansApril, 4), WithNan(MeansDecember, 1),
     [WithoutVar(MeansApril, 2) EXCEPT ![4] = Month(TRUE, NaN)]}

SiteInputs ==
    {SiteInput("ok", TRUE, m) : m \in MonthSets}
        \cup {SiteInput("missing", TRUE, Complete(MeansApril)),
              SiteInput("unreadable", TRUE, Complete(MeansApril)),
              SiteInput("ok", FALSE, Complete(MeansApril))}

ClimInputs ==
    {ClimInput(nc, gm, gn, np) :
        nc \in {"ok"}, gm \in SiteInputs, gn \in SiteInputs, np \in SiteInputs}
        \cup {ClimInput(nc, s, s, s) :
                 nc \in {"missing", "unreadable"},
                 s \in {SiteInput("ok", TRUE, Complete(MeansApril))}}

\* PART 1 of main() on every input
NextClim ==
    \E input \in ClimInputs, xyz_exists \in BOOLEAN : Part1(input, xyz_exists)

SpecClim == InitMain /\ [][NextClim]_vars

\* ------------------------------------------------- main: the inventory
\* A file name is the sequence of its characters.
UpperCase ==
    <<"A", "B", "C", "D", "E", "F", "G", "H", "I", "J", "K", "L", "M",
      "N", "O", "P", "Q", "R", "S", "T", "U", "V", "W", "X", "Y", "Z">>

LowerCase ==
    <<"a", "b", "c", "d", "e", "f", "g", "h", "i", "j", "k", "l", "m",
      "n", "o", "p", "q", "r", "s", "t", "u", "v", "w", "x", "y", "z">>

\* str.lower()
Lower(s) ==
    [i \in 1..Len(s) |->
        IF \E k \in 1..26 : UpperCase[k] = s[i]
        THEN LowerCase[CHOOSE k \in 1..26 : UpperCase[k] = s[i]]
        ELSE s[i]]

\* pat in s
Contains(s, pat) ==
    \E i \in 1..(Len(s) - Len(pat) + 1) : SubSeq(s, i, i + Len(pat) - 1) = pat

\* s.endswith(suf)
EndsWith(s, suf) ==
    Len(s) >= Len(suf) /\ SubSeq(s, Len(s) - Len(suf) + 1, Len(s)) = suf

\* \d
IsDigit(c) == c \in {"0", "1", "2", "3", "4", "5", "6", "7", "8", "9"}

\* the places at which a run of 8 digits starts
DateStarts(f) ==
    {i \in 1..(Len(f) - 7) : \A k \in 0..7 : IsDigit(f[i + k])}

\* re.search(r"(\d{8})", f): group(1) of the leftmost match, <<>> for None
DateMatch(f) ==
    IF DateStarts(f) = {} THEN <<>>
    ELSE LET i == CHOOSE j \in DateStarts(f) : \A k \in DateStarts(f) : j <= k
         IN  SubSeq(f, i, i + 7)

\* the characters of a key of SITES
CodeChars(c) ==
    IF c = "GM" THEN <<"G", "M">>
    ELSE IF c = "GN" THEN <<"G", "N">>
    ELSE <<"N", "P">>

\* `if f"{code.lower()}_" in name_lower`
HasSiteToken(name_lower, c) == Contains(name_lower, Lower(CodeChars(c)) \o <<"_">>)

\* "Detect Region": the first key of SITES whose token is in the name,
\* "none" for None
Region(name_lower) ==
    IF \E i \in 1..Len(Sites) : HasSiteToken(name_lower, Sites[i])
    THEN Sites[CHOOSE i \in 1..Len(Sites) :
                  /\ HasSiteToken(name_lower, Sites[i])
                  /\ \A k \in 1..(i - 1) : ~HasSiteToken(name_lower, Sites[k])]
    ELSE "none"

\* a slip: "sst" is asked before "ssta" and before "hs"
FileTypeSstFirst(name_lower) ==
    IF Contains(name_lower, <<"s", "s", "t">>) THEN "SST"
    ELSE IF Contains(name_lower, <<"h", "s">>)
            /\ ~Contains(name_lower, <<"h", "o", "t", "s", "p", "o", "t">>) THEN "HS"
    ELSE IF Contains(name_lower, <<"h", "o", "t", "s", "p", "o", "t">>) THEN "HS"
    ELSE IF Contains(name_lower, <<"s", "s", "t", "a">>) THEN "SSTA"
    ELSE "UNKNOWN"

\* "Detect Type"
FileType(name_lower) ==
    IF Contains(name_lower, <<"h", "s">>)
       /\ ~Contains(name_lower, <<"h", "o", "t", "s", "p", "o", "t">>) THEN "HS"
    ELSE IF Contains(name_lower, <<"h", "o", "t", "s", "p", "o", "t">>) THEN "HS"
    ELSE IF Contains(name_lower, <<"s", "s", "t", "a">>) THEN "SSTA"
    ELSE IF Contains(name_lower, <<"s", "s", "t">>) THEN "SST"
    ELSE "UNKNOWN"

\* the three `continue` of the loop over the listing
Passed(f) ==
    /\ EndsWith(f, <<".", "x", "y", "z">>)
    /\ Region(Lower(f)) # "none"
    /\ DateMatch(f) # <<>>

\* a slip: a file without a date is entered under the empty date
EntersMapNoDate(f) ==
    /\ EndsWith(f, <<".", "x", "y", "z">>)
    /\ Region(Lower(f)) # "none"

\* the body of the loop reaches line 317
EntersMap(f) == Passed(f)

\* the body of `for f in os.listdir(...)` for the name f: files_map and the
\* order of its keys afterwards.  os.path.join(DIRS["xyz_input"], f) is
\* written f.
ScanBody(map, keys, f) ==
    IF ~EntersMap(f) THEN [map |-> map, keys |-> keys]
    ELSE LET region   == Region(Lower(f))
             date_str == DateMatch(f)
             ftype    == FileType(Lower(f))
             dates    == IF region \in DOMAIN map THEN map[region] ELSE EmptyMap
             files    == IF date_str \in DOMAIN dates THEN dates[date_str]
                         ELSE EmptyMap
         IN  [map  |-> MapPut(map, region,
                              MapPut(dates, date_str, MapPut(files, ftype, f))),
              keys |-> IF region \in DOMAIN map THEN keys
                       ELSE Append(keys, region)]

\* os.listdir() yields f, a name it has not yielded before, and the body of
\* the loop runs on it
Scan(f) ==
    /\ pc = "scan"
    /\ \A i \in 1..Len(listing) : listing[i] # f
    /\ listing' = Append(listing, f)
    /\ files_map' = ScanBody(files_map, site_keys, f).map
    /\ site_keys' = ScanBody(files_map, site_keys, f).keys
    /\ UNCHANGED <<analyzerVars, mmm, monthly_means, pc, clim_input,
                   clim_data_store, code, sorted_dates, results_buffer, fed,
                   reports, fleet>>

\* an HS file, an SST file and an SSTA file of GM for one day
\* "GM_HS_20240101.xyz"
NameGmHs1 ==
    <<"G", "M", "_", "H", "S", "_",
      "2", "0", "2", "4", "0", "1", "0", "1", ".", "x", "y", "z">>

\* "GM_SST_20240101.xyz"
NameGmSst1 ==
    <<"G", "M", "_", "S", "S", "T", "_",
      "2", "0", "2", "4", "0", "1", "0", "1", ".", "x", "y", "z">>

\* "GM_SSTA_20240101.xyz"
NameGmSsta1 ==
    <<"G", "M", "_", "S", "S", "T", "A", "_",
      "2", "0", "2", "4", "0", "1", "0", "1", ".", "x", "y", "z">>

\* lower case, "hotspot" and no "hs"; two days later
\* "gm_hotspot_20240103.xyz"
NameGmHotspot3 ==
    <<"g", "m", "_", "h", "o", "t", "s", "p", "o", "t", "_",
      "2", "0", "2", "4", "0", "1", "0", "3", ".", "x", "y", "z">>

\* the same site, date and type as NameGmHotspot3
\* "GM_HS_20240103.xyz"
NameGmHs3 ==
    <<"G", "M", "_", "H", "S", "_",
      "2", "0", "2", "4", "0", "1", "0", "3", ".", "x", "y", "z">>

\* "hs" and "sst" in one name
\* "GN_HS_SST_20240229.xyz"
NameGnHsSst ==
    <<"G", "N", "_", "H", "S", "_", "S", "S", "T", "_",
      "2", "0", "2", "4", "0", "2", "2", "9", ".", "x", "y", "z">>

\* an SSTA file on a date of its own
\* "GN_SSTA_20231231.xyz"
NameGnSsta ==
    <<"G", "N", "_", "S", "S", "T", "A", "_",
      "2", "0", "2", "3", "1", "2", "3", "1", ".", "x", "y", "z">>

\* none of "hs", "hotspot", "ssta", "sst"
\* "NP_CoralTemp_20240101.xyz"
NameNpCoralTemp ==
    <<"N", "P", "_", "C", "o", "r", "a", "l", "T", "e", "m", "p", "_",
      "2", "0", "2", "4", "0", "1", "0", "1", ".", "x", "y", "z">>

\* no run of 8 digits
\* "GM_HS_nodate.xyz"
NameNoDate ==
    <<"G", "M", "_", "H", "S", "_", "n", "o", "d", "a", "t", "e", ".", "x", "y", "z">>

\* no site code followed by "_"
\* "XX_HS_20240101.xyz"
NameNoSite ==
    <<"X", "X", "_", "H", "S", "_",
      "2", "0", "2", "4", "0", "1", "0", "1", ".", "x", "y", "z">>

\* not an .xyz file
\* "GM_HS_20240101.txt"
NameTxt ==
    <<"G", "M", "_", "H", "S", "_",
      "2", "0", "2", "4", "0", "1", "0", "1", ".", "t", "x", "t">>

\* 8 digits that are no calendar date
\* "GM_HS_20261340.xyz"
NameBadDate ==
    <<"G", "M", "_", "H", "S", "_",
      "2", "0", "2", "6", "1", "3", "4", "0", ".", "x", "y", "z">>

\* the names a listing of SpecScan is made of
ScanNames ==
    {NameGmHs1, NameGmSst1, NameGmSsta1, NameGmHotspot3, NameGmHs3,
     NameGnHsSst, NameGnSsta, NameNpCoralTemp, NameNoDate, NameNoSite,
     NameTxt, NameBadDate}

\* no climatology file
NoClimatology ==
    ClimInput("missing", SiteInput("ok", TRUE, Complete(MeansApril)),
              SiteInput("ok", TRUE, Complete(MeansApril)),
              SiteInput("ok", TRUE, Complete(MeansApril)))

\* main() down to the end of the listing, for every listing of up to
\* MaxListed names
NextScan ==
    \/ Part1(NoClimatology, TRUE)
    \/ \E f \in ScanNames : Len(listing) < MaxListed /\ Scan(f)

SpecScan == InitMain /\ [][NextScan]_vars

\* ---------------------------------------------------- main: the dates
\* int() of a digit, of a run of digits
DigitVal(c) ==
    IF c = "0" THEN 0 ELSE IF c = "1" THEN 1 ELSE IF c = "2" THEN 2
    ELSE IF c = "3" THEN 3 ELSE IF c = "4" THEN 4 ELSE IF c = "5" THEN 5
    ELSE IF c = "6" THEN 6 ELSE IF c = "7" THEN 7 ELSE IF c = "8" THEN 8
    ELSE 9

RECURSIVE Num(_)
Num(ds) ==
    IF ds = <<>> THEN 0
    ELSE 10 * Num(SubSeq(ds, 1, Len(ds) - 1)) + DigitVal(ds[Len(ds)])

\* a < b for two strings of 8 digits, as sorted() compares them: by the
\* first character in which they differ
StrLess(a, b) ==
    \E i \in 1..8 :
        /\ \A k \in 1..(i - 1) : a[k] = b[k]
        /\ DigitVal(a[i]) < DigitVal(b[i])

\* the key of a set of keys that has half of them before it
MiddleKey(keys) ==
    CHOOSE a \in keys :
        Cardinality({b \in keys : StrLess(b, a)}) = Cardinality(keys) \div 2

\* a slip: sorted(..., reverse=True)
RECURSIVE SortedKeysReversed(_)
SortedKeysReversed(keys) ==
    IF keys = {} THEN <<>>
    ELSE LET mid == MiddleKey(keys)
         IN  SortedKeysReversed({b \in keys : StrLess(mid, b)}) \o <<mid>>
             \o SortedKeysReversed({b \in keys : StrLess(b, mid)})

\* sorted(dates_dict.keys()): the keys before a middle key in their order,
\* the middle key, the keys after it in their order
RECURSIVE SortedKeys(_)
SortedKeys(keys) ==
    IF keys = {} THEN <<>>
    ELSE LET mid == MiddleKey(keys)
         IN  SortedKeys({b \in keys : StrLess(b, mid)}) \o <<mid>>
             \o SortedKeys({b \in keys : StrLess(mid, b)})

IsLeap(y) == y % 4 = 0 /\ (y % 100 # 0 \/ y % 400 = 0)

DaysInMonth(y, m) ==
    IF m = 2 THEN (IF IsLeap(y) THEN 29 ELSE 28)
    ELSE IF m \in {4, 6, 9, 11} THEN 30
    ELSE 31

\* a datetime at midnight
Date(y, m, d) == [year |-> y, month |-> m, day |-> d]

\* strptime(d_str, "%Y%m%d") returns: year, month and day are the digits
\* 1-4, 5-6 and 7-8 and name a day of the calendar; else it raises
ValidDateStr(d_str) ==
    LET y == Num(SubSeq(d_str, 1, 4))
        m == Num(SubSeq(d_str, 5, 6))
        d == Num(SubSeq(d_str, 7, 8))
    IN  y >= 1 /\ m \in 1..12 /\ d >= 1 /\ d <= DaysInMonth(y, m)

StrpTime(d_str) ==
    Date(Num(SubSeq(d_str, 1, 4)), Num(SubSeq(d_str, 5, 6)),
         Num(SubSeq(d_str, 7, 8)))

\* the days before year y, before month m of year y
DaysBeforeYear(y) ==
    LET p == y - 1
    IN  p * 365 + (p \div 4) - (p \div 100) + (p \div 400)

DaysBeforeMonth(y, m) == SumSeq([k \in 1..(m - 1) |-> DaysInMonth(y, k)])

\* the day number of a date, and the date of a day number
ToOrdinal(dt) ==
    DaysBeforeYear(dt.year) + DaysBeforeMonth(dt.year, dt.month) + dt.day

FromOrdinal(n) ==
    LET y == CHOOSE c \in (n \div 366)..((n \div 365) + 1) :
                 DaysBeforeYear(c) < n /\ n <= DaysBeforeYear(c + 1)
        r == n - DaysBeforeYear(y)
        m == CHOOSE c \in 1..12 :
                 /\ DaysBeforeMonth(y, c) < r
                 /\ r <= DaysBeforeMonth(y, c) + DaysInMonth(y, c)
    IN  Date(y, m, r - DaysBeforeMonth(y, m))

\* dt + datetime.timedelta(days=k)
PlusDays(dt, k) == FromOrdinal(ToOrdinal(dt) + k)

\* timedelta(weeks=12), timedelta(days=7)
DhwValidWeeks == 12

BaaValidDays == 7

\* a slip: three months of 30 days for the twelve weeks
DhwValidDate90(first_dt) == PlusDays(first_dt, 90)

\* a slip: timedelta(days=12) for timedelta(weeks=12)
DhwValidDateDays(first_dt) == PlusDays(first_dt, DhwValidWeeks)

\* dhw_valid_dt, baa_valid_dt
DhwValidDate(first_dt) == PlusDays(first_dt, DhwValidWeeks * DaysPerWeek)

BaaValidDate(dhw_valid_dt) == PlusDays(dhw_valid_dt, BaaValidDays)

\* ------------------------------------------- main: PART 3, the reports
\* an HS file of GM two more days later
\* "GM_HS_20240105.xyz"
NameGmHs5 ==
    <<"G", "M", "_", "H", "S", "_",
      "2", "0", "2", "4", "0", "1", "0", "5", ".", "x", "y", "z">>

\* an HS file of GN, 84 days before a day after 29 February
\* "GN_HS_20231210.xyz"
NameGnHsDec ==
    <<"G", "N", "_", "H", "S", "_",
      "2", "0", "2", "3", "1", "2", "1", "0", ".", "x", "y", "z">>

\* the character of a digit, and a number in k digits as "%0kd" writes it
DigitChar(n) ==
    CHOOSE c \in {"0", "1", "2", "3", "4", "5", "6", "7", "8", "9"} :
        DigitVal(c) = n

Digits(n, k) == [i \in 1..k |-> DigitChar((n \div (10 ^ (k - i))) % 10)]

\* the HS file of GN for the k-th day after 1 January 2024,
\* "GN_HS_YYYYMMDD.xyz"
SeriesName(k) ==
    LET d == PlusDays(Date(2024, 1, 1), k)
    IN  <<"G", "N", "_", "H", "S", "_">> \o Digits(d.year, 4)
        \o Digits(d.month, 2) \o Digits(d.day, 2) \o <<".", "x", "y", "z">>

\* the names of a daily series of MaxSeriesDays days without the days of
\* the set missing, in the order of the days
Series(missing) ==
    LET days == (0..(MaxSeriesDays - 1)) \ missing
    IN  [i \in 1..Cardinality(days) |->
            SeriesName(CHOOSE d \in days :
                           Cardinality({e \in days : e < d}) = i - 1)]

\* a file every day; one day without file; two days without file
SeriesDaily == Series({})

SeriesOneGap == Series({40})

SeriesTwoGaps == Series({40, 41})

SeriesSet == {SeriesDaily, SeriesOneGap, SeriesTwoGaps}

\* what the files of the input folder hold
Content(path) ==
    IF path = NameGmHs1 THEN HsWarm
    ELSE IF path = NameGmSst1 THEN SstFull
    ELSE IF path = NameGmSsta1 THEN SstaFull
    ELSE IF path = NameGmHotspot3 THEN HsHot14
    ELSE IF path = NameGmHs3 THEN HsHalf
    ELSE IF path = NameGmHs5 THEN HsAllNa
    ELSE IF path = NameGnHsDec THEN HsOneDegree
    ELSE IF path = NameGnHsSst THEN HsHot28
    ELSE IF path = NameGnSsta THEN SstaFull
    ELSE IF path = NameBadDate THEN HsHalf
    ELSE IF \E k \in 1..Len(SeriesDaily) : SeriesDaily[k] = path THEN HsWarm
    ELSE HsUnreadable

\* files.get(kind) as process_day takes it: the file, or no file for None
Sample(files, kind) ==
    IF kind \in DOMAIN files THEN Content(files[kind]) ELSE NoFile

\* the place of the site of the running loop among the keys of files_map
SiteIndex ==
    IF code = "none" THEN 0
    ELSE CHOOSE i \in 1..Len(site_keys) : site_keys[i] = code

\* a different design: without an entry the site has no baseline at all
SiteClimOrNone(store, c) ==
    IF c \in DOMAIN store THEN store[c]
    ELSE [mmm |-> NaN, monthly_means |-> <<>>]

\* clim_data_store.get(code, {'mmm': 0.0, 'monthly_means': [0.0]*12})
SiteClim(store, c) == IF c \in DOMAIN store THEN store[c] ELSE ZeroBaseline

\* the listing ends: `for code, dates_dict in files_map.items():` begins
EndScan ==
    /\ pc = "scan"
    /\ pc' = "site"
    /\ UNCHANGED <<analyzerVars, mmm, monthly_means, clim_input,
                   clim_data_store, listing, files_map, site_keys, code,
                   sorted_dates, results_buffer, fed, reports, fleet>>

\* the head of the loop over the sites, lines 323-332: the next site gets
\* its analyzer, or main() ends
StartSite ==
    /\ pc = "site"
    /\ IF SiteIndex = Len(site_keys)
       THEN /\ pc' = "done"
            /\ UNCHANGED <<analyzerVars, mmm, monthly_means, code,
                           sorted_dates, results_buffer, fed>>
       ELSE LET next      == site_keys[SiteIndex + 1]
                site_clim == SiteClim(clim_data_store, next)
            IN  /\ pc' = "day"
                /\ code' = next
                /\ stress_window' = <<>>
                /\ baa_window' = <<>>
                /\ center_lat' = <<0, 1>>
                /\ center_lon' = <<0, 1>>
                /\ coord_set' = FALSE
                /\ call' = [hs |-> HsFile(<<>>, "read"), sst |-> NoFile,
                            ssta |-> NoFile]
                /\ ret' = [kind |-> "init"]
                /\ on_fresh' = FALSE
                /\ hist' = <<>>
                /\ changes' = 0
                /\ mmm' = site_clim.mmm
                /\ monthly_means' = site_clim.monthly_means
                /\ sorted_dates' = SortedKeys(DOMAIN files_map[next])
                /\ results_buffer' = <<>>
                /\ fed' = <<>>
    /\ UNCHANGED <<clim_input, clim_data_store, listing, files_map,
                   site_keys, reports, fleet>>

\* a slip: the SST file is mandatory as well
HasHsAndSst(files) == "HS" \in DOMAIN files /\ "SST" \in DOMAIN files

\* `if "HS" not in files: continue`
HasHs(files) == "HS" \in DOMAIN files

\* the entry of results_buffer: the returned record with its 'date'
Dated(dt_obj, data) ==
    [date |-> dt_obj, sst_min |-> data.sst_min, sst_max |-> data.sst_max,
     sst_90 |-> data.sst_90, ssta_90 |-> data.ssta_90, hs_90 |-> data.hs_90,
     dhw |-> data.dhw, baa |-> data.baa]

\* one turn of `for d_str in sorted_dates:`, lines 335-346.  strptime
\* raises on 8 digits that are no calendar date; nothing in main() catches
\* it and the run ends there.
Day ==
    /\ pc = "day"
    /\ sorted_dates # <<>>
    /\ LET d_str == Head(sorted_dates)
           files == files_map[code][d_str]
       IN  /\ sorted_dates' = Tail(sorted_dates)
           /\ IF ~HasHs(files)
              THEN UNCHANGED <<analyzerVars, pc, results_buffer, fed>>
              ELSE IF ~ValidDateStr(d_str)
              THEN /\ pc' = "aborted"
                   /\ UNCHANGED <<analyzerVars, results_buffer, fed>>
              ELSE LET dt_obj == StrpTime(d_str)
                   IN  /\ ProcessDay(Content(files["HS"]),
                                      Sample(files, "SST"),
                                      Sample(files, "SSTA"))
                       /\ fed' = Append(fed, dt_obj)
                       /\ results_buffer' =
                              IF ret'.kind = "record"
                              THEN Append(results_buffer, Dated(dt_obj, ret'))
                              ELSE results_buffer
                       /\ UNCHANGED <<pc, changes>>
    /\ UNCHANGED <<mmm, monthly_means, clim_input, clim_data_store, listing,
                   files_map, site_keys, code, reports, fleet>>

\* a line of the data table
Line(row) ==
    [year |-> row.date.year, month |-> row.date.month, day |-> row.date.day,
     sst_min |-> row.sst_min, sst_max |-> row.sst_max, sst_90 |-> row.sst_90,
     ssta_90 |-> row.ssta_90, hs_90 |-> row.hs_90, dhw |-> row.dhw,
     baa |-> row.baa]

\* a different design: the table starts at First Valid DHW Date
RowsFromValid(buffer) ==
    LET valid == ToOrdinal(DhwValidDate(buffer[1].date))
        kept  == SelectSeq(buffer, LAMBDA row : ToOrdinal(row.date) >= valid)
    IN  [i \in 1..Len(kept) |-> Line(kept[i])]

\* `for row in results_buffer:`, the lines of the data table
Rows(buffer) == [i \in 1..Len(buffer) |-> Line(buffer[i])]

\* the report file of lines 355-395.  The numbers are the values that are
\* formatted; the rounding of "%.4f" is left out.
Report ==
    LET first_dt     == results_buffer[1].date
        dhw_valid_dt == DhwValidDate(first_dt)
        baa_valid_dt == BaaValidDate(dhw_valid_dt)
    IN  [center_lon    |-> center_lon,
         center_lat    |-> center_lat,
         mmm           |-> mmm,
         monthly_means |-> monthly_means,
         dhw_valid     |-> <<dhw_valid_dt.year, dhw_valid_dt.month,
                             dhw_valid_dt.day>>,
         baa_valid     |-> <<baa_valid_dt.year, baa_valid_dt.month,
                             baa_valid_dt.day>>,
         rows          |-> Rows(results_buffer)]

\* a slip: a single record is no data either
HasTwoResults(buffer) == Len(buffer) >= 2

\* `if not results_buffer:` is not taken
HasResults(buffer) == buffer # <<>>

\* the end of the loop over the dates, lines 348-397: no report for an
\* empty results_buffer, else the report of the site; reports is keyed by
\* the site code, which stands for the file name made of the full name
EndSite ==
    /\ pc = "day"
    /\ sorted_dates = <<>>
    /\ pc' = "site"
    /\ reports' = IF ~HasResults(results_buffer) THEN reports
                  ELSE MapPut(reports, code, Report)
    /\ UNCHANGED <<analyzerVars, mmm, monthly_means, clim_input,
                   clim_data_store, listing, files_map, site_keys, code,
                   sorted_dates, results_buffer, fed, fleet>>

\* the names a listing of SpecMain is made of
MainNames ==
    {NameGmHs1, NameGmSst1, NameGmHotspot3, NameGmHs5, NameGnHsDec,
     NameGnSsta, NameNpCoralTemp, NameBadDate}

\* GM has its twelve means, GN has a NaN mean, NP has no shapefile
OnlyGmBaseline ==
    ClimInput("ok", SiteInput("ok", TRUE, Complete(MeansApril)),
              SiteInput("ok", TRUE, WithNan(MeansApril, 4)),
              SiteInput("missing", TRUE, Complete(MeansApril)))

MainClimInputs == {NoClimatology, OnlyGmBaseline}

\* main() on every listing of up to MaxMainListed names
NextMain ==
    \/ \E input \in MainClimInputs : Part1(input, TRUE)
    \/ \E f \in MainNames : Len(listing) < MaxMainListed /\ Scan(f)
    \/ EndScan
    \/ StartSite
    \/ Day
    \/ EndSite

SpecMain == InitMain /\ [][NextMain]_vars

\* main() on a folder that holds the first files of a daily series of GN
NextSeries ==
    \/ Part1(NoClimatology, TRUE)
    \/ \E s \in SeriesSet :
          /\ Len(listing) < Len(s)
          /\ SubSeq(s, 1, Len(listing)) = listing
          /\ Scan(s[Len(listing) + 1])
    \/ EndScan
    \/ StartSite
    \/ Day
    \/ EndSite

SpecSeries == InitMain /\ [][NextSeries]_vars

\* ------------------------------------------ analyzers side by side
\* RegionAnalyzer(name, code, climatology_data): the fields of a new
\* instance; main() passes a climatology_data with both keys
NewAnalyzer(climatology_data) ==
    [stress_window |-> <<>>,
     baa_window    |-> <<>>,
     center_lat    |-> <<0, 1>>,
     center_lon    |-> <<0, 1>>,
     coord_set     |-> FALSE,
     mmm           |-> climatology_data.mmm,
     monthly_means |-> climatology_data.monthly_means]

\* a different design: the file holds temperatures and the HotSpot is taken
\* over self.mmm
HsP90OverMmm(self, hs_values) == Percentile90(hs_values) - self.mmm

\* `hs_90 = np.percentile(hs_values, 90)` in a method of self: no field of
\* self is read
HsP90(self, hs_values) == Percentile90(hs_values)

\* process_day on the instance self: the instance after the call, and the
\* value returned
Analyze(self, hs, sst, ssta) ==
    LET stage  == Stage(hs, self.coord_set)
        df_hs  == DropNa(hs.rows)
        centre == CentroidAfter(self.center_lon, self.center_lat,
                                self.coord_set, stage, df_hs)
        placed == [self EXCEPT !.center_lon = centre.lon,
                               !.center_lat = centre.lat,
                               !.coord_set = centre.fixed]
    IN  IF stage = "record"
        THEN LET hs_values    == Col(df_hs, "val")
                 hs_90        == HsP90(self, hs_values)
                 idx_p90      == ArgMinAbs(hs_values, hs_90)
                 sstf         == SstFields(sst, idx_p90)
                 daily_stress == DailyStress(hs_90)
                 window       == DequeAppend(self.stress_window, daily_stress,
                                             StressMaxLen)
                 current_dhw  == SumSeq(window)
                 level        == AlertLevel(hs_90, current_dhw)
                 levels       == DequeAppend(self.baa_window, level, BaaMaxLen)
             IN  [self |-> [placed EXCEPT !.stress_window = window,
                                          !.baa_window = levels],
                  data |-> [kind    |-> "record",
                            sst_min |-> sstf.sst_min,
                            sst_max |-> sstf.sst_max,
                            sst_90  |-> sstf.sst_90,
                            ssta_90 |-> SstaField(ssta, idx_p90),
                            hs_90   |-> ReportedHs(hs_90),
                            dhw     |-> current_dhw,
                            baa     |-> FinalBaa(levels)]]
        ELSE [self |-> placed, data |-> Skipped(stage)]

\* an analyzer of the fleet with the values its calls returned, and the
\* same after one more call on the files of input
Member(analyzer) == [self |-> analyzer, returned |-> <<>>]

Fed(member, input) ==
    LET done == Analyze(member.self, input[1], input[2], input[3])
    IN  [self |-> done.self, returned |-> Append(member.returned, done.data)]

\* a different design: the two windows are attributes of the class, one
\* pair for all instances
StoreShared(all, name, member) ==
    [n \in DOMAIN all |->
        IF n = name THEN member
        ELSE [all[n] EXCEPT
                 !.self.stress_window = member.self.stress_window,
                 !.self.baa_window = member.self.baa_window]]

\* the assignments to self.* of a call reach the fields of that instance
Store(all, name, member) == [all EXCEPT ![name] = member]

\* the <<HS, SST, SSTA>> files a call of SpecTwin can get
TwinInputs ==
    {<<HsWarm, SstFull, SstaFull>>, <<HsOneDegree, SstShort, NoFile>>,
     <<HsHot28, NoFile, NoFile>>, <<HsCool, NoFile, SstaFull>>,
     <<HsAllNa, SstFull, SstaFull>>, <<HsUnreadable, NoFile, NoFile>>,
     <<HsBadLon, SstFull, NoFile>>, <<HsGap, SstFull, SstaShort>>}

\* two analyzers of one site: the zero baseline of main(), and a baseline
\* of twelve monthly means
Twins ==
    [n \in {"zero", "april"} |->
        Member(NewAnalyzer(IF n = "zero" THEN ZeroBaseline
                           ELSE [mmm |-> MaxSeq(MeansApril),
                                 monthly_means |-> MeansApril]))]

InitTwin ==
    /\ NewWindows
    /\ mmm = ZeroBaseline.mmm
    /\ monthly_means = ZeroBaseline.monthly_means
    /\ NoMain
    /\ fleet = Twins

\* the same files go to both analyzers
NextTwin ==
    \E input \in TwinInputs :
        /\ Len(fleet["zero"].returned) < MaxTwinCalls
        /\ fleet' = Store(Store(fleet, "zero", Fed(fleet["zero"], input)),
                          "april", Fed(fleet["april"], input))
        /\ UNCHANGED <<analyzerVars, mmm, monthly_means, pc, clim_input,
                       clim_data_store, listing, files_map, site_keys, code,
                       sorted_dates, results_buffer, fed, reports>>

SpecTwin == InitTwin /\ [][NextTwin]_vars

\* an HS file of pixels further east: hs_90 = 2.8
HsEast == HsFile(PixelsEast(10, 30, 20), "none")

\* the files of the days of a site, in the order of its dates: the
\* MaxFleetCalls first days of a round of four
FeedRound(c) ==
    IF c = "GM"
    THEN <<<<HsWarm, SstFull, SstaFull>>, <<HsAllNa, SstFull, NoFile>>,
           <<HsHot28, NoFile, NoFile>>, <<HsOneDegree, SstShort, SstaFull>>>>
    ELSE IF c = "GN"
    THEN <<<<HsEast, NoFile, SstaFull>>, <<HsHot14, NoFile, NoFile>>,
           <<HsCool, SstFull, SstaFull>>, <<HsEast, SstFull, NoFile>>>>
    ELSE <<<<HsUnreadable, NoFile, NoFile>>, <<HsHalf, SstFull, SstaFull>>,
           <<HsHot56, NoFile, NoFile>>, <<HsZero, NoFile, SstaShort>>>>

Feed(c) ==
    [k \in 1..MaxFleetCalls |->
        FeedRound(c)[((k - 1) % Len(FeedRound(c))) + 1]]

\* one analyzer for every site, made by the loop of lines 323-332 from the
\* baselines of OnlyGmBaseline
Fleet ==
    [c \in {"GM", "GN", "NP"} |->
        Member(NewAnalyzer(SiteClim(CalculateClimatologyData(OnlyGmBaseline),
                                    c)))]

InitFleet ==
    /\ NewWindows
    /\ mmm = ZeroBaseline.mmm
    /\ monthly_means = ZeroBaseline.monthly_means
    /\ NoMain
    /\ fleet = Fleet

\* the next process_day call of the site c, at any moment between the calls
\* of the other sites
FleetStep(c) ==
    /\ Len(fleet[c].returned) < MaxFleetCalls
    /\ fleet' = Store(fleet, c,
                      Fed(fleet[c], Feed(c)[Len(fleet[c].returned) + 1]))
    /\ UNCHANGED <<analyzerVars, mmm, monthly_means, pc, clim_input,
                   clim_data_store, listing, files_map, site_keys, code,
                   sorted_dates, results_buffer, fed, reports>>

NextFleet == \E c \in DOMAIN fleet : FleetStep(c)

SpecFleet == InitFleet /\ [][NextFleet]_vars

\* ---------------------------------------------------------------- claims
\* the daily_stress column and the daily_alert_level column of the history
StressOf(h) == [i \in 1..Len(h) |-> h[i].stress]

LevelOf(h) == [i \in 1..Len(h) |-> h[i].level]

\* C1 (SpecLong): the dhw of the n-th record-returning call is the sum of the
\* daily_stress of the last min(n, 84) record-returning calls; for n > 84 it
\* is dhw_(n-1) - stress_(n-84) + stress_n, and 84 days of one stress x give
\* dhw = 84x on day 84.
C1_DhwIsSumOfLast84 ==
    LET n == Len(hist)
    IN  n > 0 =>
          /\ hist[n].dhw = SumSeq(LastK(StressOf(hist), 84))
          /\ ret.kind = "record" => ret.dhw = hist[n].dhw
          /\ n > 84 =>
               hist[n].dhw = hist[n - 1].dhw - hist[n - 84].stress + hist[n].stress
          /\ (n = 84 /\ \A i \in 1..84 : hist[i].stress = hist[1].stress) =>
               hist[n].dhw = 84 * hist[1].stress

\* day 85 after 84 days of one positive stress, evicting day 1 for a day of
\* another stress
C1_Witness ==
    /\ Len(hist) = 85
    /\ ret.kind = "record"
    /\ hist[1].stress > 0
    /\ \A i \in 1..84 : hist[i].stress = hist[1].stress
    /\ hist[84].dhw = 84 * hist[1].stress
    /\ hist[85].stress # hist[1].stress
    /\ hist[85].dhw = 83 * hist[1].stress + hist[85].stress

\* C2 (SpecWeek): the baa of the n-th record-returning call is the maximum of
\* the daily alert levels of the last min(n, 7) record-returning calls: a day
\* of level 4 keeps baa >= 4 on its own call and on the next six, and on the
\* seventh call after it baa is the maximum of the seven levels left.
C2_BaaIsMaxOfLast7 ==
    LET n == Len(hist)
    IN  n > 0 =>
          /\ hist[n].baa = MaxSeq(LastK(LevelOf(hist), 7))
          /\ ret.kind = "record" => ret.baa = hist[n].baa
          /\ \A k \in 1..n : (n - k <= 6 /\ hist[k].level = 4) => hist[n].baa >= 4
          /\ (n > 7 /\ hist[n - 7].level = 4) =>
               hist[n].baa = MaxSeq(SubSeq(LevelOf(hist), n - 6, n))

\* a level-4 day, six more calls with baa 4, and the seventh call after it
\* back below 4
C2_Witness ==
    LET n == Len(hist)
    IN  /\ n > 7
        /\ ret.kind = "record"
        /\ hist[n - 7].level = 4
        /\ \A k \in (n - 6)..n : hist[k].level < 4
        /\ \A k \in (n - 6)..(n - 1) : hist[k].baa = 4
        /\ ret.baa < 4

\* C3 (Spec): in every record-returning call the daily alert level is given
\* by the table over (hs_90, dhw), dhw being the window sum after today's
\* push: 0 if hs_90 <= 0; 1 if 0 < hs_90 < 1; 2 if hs_90 >= 1 and dhw < 4;
\* 3 if hs_90 >= 1 and 4 <= dhw < 8; 4 if hs_90 >= 1 and dhw >= 8; exactly
\* one row applies.  (1.0 is 100 hundredths; 4.0 and 8.0 are 2800 and 5600
\* counts of 1/700.)
C3_AlertLevelTable ==
    ret.kind = "record" =>
        LET h == ret.p90
            d == SumSeq(stress_window)
            l == hist[Len(hist)].level
            rows == << h <= 0,
                       0 < h /\ h < 100,
                       h >= 100 /\ d < 2800,
                       h >= 100 /\ 2800 <= d /\ d < 5600,
                       h >= 100 /\ d >= 5600 >>
        IN  /\ ret.dhw = d
            /\ l \in 0..4
            /\ rows[l + 1]
            /\ \A i \in 1..5 : rows[i] => i = l + 1
            /\ baa_window[Len(baa_window)] = l

\* a day of Alert Level 1 whose DHW is exactly 4.0
C3_Witness ==
    /\ ret.kind = "record"
    /\ ret.p90 >= 100
    /\ ret.dhw = 2800
    /\ hist[Len(hist)].level = 3

\* the HS file was read and every row it keeps has the value 0.5
AllHalf(hs) ==
    /\ hs.fault = "none"
    /\ \E i \in 1..Len(hs.rows) : ~hs.rows[i].na
    /\ \A i \in 1..Len(hs.rows) : hs.rows[i].na \/ hs.rows[i].val = 5

\* C4 as the specification states it (Spec): on a freshly created analyzer a
\* single call whose HS values are all 0.5 returns a record with hs_90 = 0.5,
\* daily_stress = 0, dhw = 0 and baa = 0.
C4_Original ==
    (on_fresh /\ AllHalf(call.hs)) =>
        /\ ret.kind = "record"
        /\ ret.p90 = 50
        /\ Len(hist) = 1
        /\ hist[1].stress = 0
        /\ ret.dhw = 0
        /\ ret.baa = 0

\* C4 amended (Spec): on a freshly created analyzer a single call whose HS
\* values are all 0.5 returns a record with hs_90 = 0.5, daily_stress = 0,
\* dhw = 0 and baa = 1 (0 < hs_90 < 1 is the Watch level).
C4_HalfDegreeIsWatch ==
    (on_fresh /\ AllHalf(call.hs)) =>
        /\ ret.kind = "record"
        /\ ret.p90 = 50
        /\ ret.hs_90 = 50
        /\ Len(hist) = 1
        /\ hist[1].stress = 0
        /\ hist[1].level = 1
        /\ stress_window = <<0>>
        /\ baa_window = <<1>>
        /\ ret.dhw = 0
        /\ ret.baa = 1

\* the first call of an analyzer, on an HS file of 0.5 everywhere
C4_Witness ==
    /\ on_fresh
    /\ AllHalf(call.hs)
    /\ \A i \in 1..Len(call.hs.rows) : ~call.hs.rows[i].na
    /\ ret.kind = "record"

\* C5 (Spec): the value a record-returning call pushes into the 84-slot
\* window is hs_90 / 7 when hs_90 >= 1 and exactly 0 otherwise, and no call
\* pushes a negative value.  (hs_90 / 7 in counts of 1/700 is hs_90 in
\* counts of 1/100.)
C5_PushedStress ==
    ret.kind = "record" =>
        LET pushed == stress_window[Len(stress_window)]
        IN  /\ ret.p90 >= 100 => pushed = ret.p90
            /\ ret.p90 < 100 => pushed = 0
            /\ pushed = hist[Len(hist)].stress
            /\ \A i \in 1..Len(stress_window) : stress_window[i] >= 0

\* a day of negative hs_90 after a day that pushed a positive stress
C5_Witness ==
    /\ ret.kind = "record"
    /\ ret.p90 < 0
    /\ Len(stress_window) = 2
    /\ stress_window[1] > 0
    /\ stress_window[2] = 0

\* the HS file was read and dropna() leaves none of its rows
AllRowsInvalid(hs) ==
    /\ hs.fault # "read"
    /\ \A i \in 1..Len(hs.rows) : hs.rows[i].na

\* C6 (Spec): a call whose HS sample is empty after the rows with a missing
\* value are removed returns skipped and leaves both windows, the centroid
\* and the centroid-fixed flag as they were.
C6_EmptySampleChangesNothing ==
    [][AllRowsInvalid(call'.hs) =>
          /\ ret'.kind = "skipped"
          /\ UNCHANGED <<stress_window, baa_window, center_lon, center_lat,
                         coord_set, hist>>]_vars

\* an empty sample given to an analyzer that has windows and a centroid
C6_Witness ==
    /\ AllRowsInvalid(call.hs)
    /\ ret.kind = "skipped"
    /\ coord_set
    /\ stress_window # <<>>
    /\ baa_window # <<>>

\* the centroid of the rows dropna() keeps
CentroidOf(hs) ==
    LET kept == SelectSeq(hs.rows, LAMBDA r : ~r.na)
    IN  << Mean([i \in 1..Len(kept) |-> kept[i].lon]),
           Mean([i \in 1..Len(kept) |-> kept[i].lat]) >>

\* C7 (Spec): once the centroid is fixed, no later call changes it, whatever
\* the coordinates of the later samples, record or skipped.
C7_FixedCentroidStays ==
    [][coord_set =>
          /\ coord_set'
          /\ center_lon' = center_lon
          /\ center_lat' = center_lat]_vars

\* a record-returning call on pixels with another centroid than the fixed one
C7_Witness ==
    /\ coord_set
    /\ ret.kind = "record"
    /\ Len(hist) = 2
    /\ <<center_lon, center_lat>> # CentroidOf(call.hs)

\* C8 as the specification states it (Spec): only the first call that
\* returns a record fixes the centroid, as the mean of that call's HS
\* coordinates; a call that ends as skipped never fixes it.  So a fixed
\* centroid is the one of the first record.
C8_OnlySuccessFixesCentroid ==
    coord_set =>
        /\ hist # <<>>
        /\ <<center_lon, center_lat>> = hist[1].centre

\* C9 (Spec): a record-returning call with no SST sample returns sst_at_p90 =
\* sst_min = sst_max = -999.0, one with no SSTA sample returns ssta_at_p90 =
\* -999.0; a call on a usable HS file returns its record whatever the SST and
\* SSTA samples are, and both windows advance by the day's stress and level.
C9_MissingSamplesAreSentinels ==
    [][/\ (call'.hs.fault = "none" /\ ~AllRowsInvalid(call'.hs)) =>
            /\ ret'.kind = "record"
            /\ Len(hist') = Len(hist) + 1
       /\ hist' # hist =>
            LET today == hist'[Len(hist')]
            IN  /\ ~call'.sst.present =>
                     /\ ret'.sst_90 = -999
                     /\ ret'.sst_min = -999
                     /\ ret'.sst_max = -999
                /\ ~call'.ssta.present => ret'.ssta_90 = -999
                /\ today.stress = IF ret'.p90 >= 100 THEN ret'.p90 ELSE 0
                /\ stress_window' = LastK(Append(stress_window, today.stress), 84)
                /\ baa_window' = LastK(Append(baa_window, today.level), 7)]_vars

\* a second record of an analyzer, from a call with neither SST nor SSTA
C9_Witness ==
    /\ ret.kind = "record"
    /\ ~call.sst.present
    /\ ~call.ssta.present
    /\ ret.sst_90 = -999 /\ ret.sst_min = -999 /\ ret.sst_max = -999
    /\ ret.ssta_90 = -999
    /\ Len(stress_window) = 2
    /\ Len(baa_window) = 2

\* the SST file was read, is not empty, and is too short for idx_p90
SstIndexFails ==
    /\ ret.kind = "record"
    /\ call.sst.present
    /\ call.sst.fault = "none"
    /\ call.sst.vals # <<>>
    /\ ret.idx >= Len(call.sst.vals)

CompleteSet(months) ==
    \A i \in 1..12 : months[i].present /\ ~IsNan(months[i].mean)

\* PART 1 has run
ClimDone == pc # "part1"

\* the function has clipped the data set of site c and has returned
\* clim_results: no error outside the computation on the monthly means
Computed(c) ==
    /\ ClimDone
    /\ clim_input.nc = "ok"
    /\ \A o \in DOMAIN clim_input.site : clim_input.site[o].shp # "unreadable"
    /\ clim_input.site[c].shp = "ok"
    /\ clim_input.site[c].clip

\* C11 (SpecClim): for a monthly-mean set of 12 present, finite values the
\* baseline has an entry whose mmm is the maximum of the 12 values and whose
\* monthly_means are the 12 values in the order January to December.
C11_CompleteSetGivesMaximum ==
    \A c \in {"GM", "GN", "NP"} :
        (Computed(c) /\ CompleteSet(clim_input.site[c].months)) =>
            LET months == clim_input.site[c].months
            IN  /\ c \in DOMAIN clim_data_store
                /\ clim_data_store[c].monthly_means =
                       [i \in 1..12 |-> months[i].mean]
                /\ \A i \in 1..12 : clim_data_store[c].mmm >= months[i].mean
                /\ \E i \in 1..12 : clim_data_store[c].mmm = months[i].mean

\* C11: the warmest month of GM is January, not the last of the list, and
\* the entry of GM holds its mean
C11_Witness ==
    /\ Computed("GM")
    /\ clim_input.site["GM"].months = Complete(MeansJanuary)
    /\ "GM" \in DOMAIN clim_data_store
    /\ clim_data_store["GM"].mmm = 2950
    /\ clim_data_store["GM"].monthly_means[12] = 2890

\* C12 (SpecClim): a monthly-mean set in which an entry is missing (the
\* variable is absent or its mean is NaN) gets no baseline entry: no mmm is
\* computed from the entries that are left.
C12_IncompleteSetGivesNoEntry ==
    \A c \in {"GM", "GN", "NP"} :
        (ClimDone /\ ~CompleteSet(clim_input.site[c].months)) =>
            c \notin DOMAIN clim_data_store

\* C12: GM misses the variable of April, NP has a NaN mean; both have no
\* entry while GN, complete, has one
C12_Witness ==
    /\ Computed("GM") /\ Computed("NP")
    /\ clim_input.site["GM"].months = WithoutVar(MeansApril, 4)
    /\ clim_input.site["NP"].months = WithNan(MeansDecember, 1)
    /\ DOMAIN clim_data_store = {"GN"}

\* the names of a listing, in its order, without those for which keep fails
Without(names, Keep(_)) == SelectSeq(names, Keep)

\* files_map and its keys after the loop has run over the names
RECURSIVE Inventory(_)
Inventory(names) ==
    IF names = <<>> THEN [map |-> EmptyMap, keys |-> <<>>]
    ELSE LET before == Inventory(SubSeq(names, 1, Len(names) - 1))
         IN  ScanBody(before.map, before.keys, names[Len(names)])

\* the kind of a lower-cased name by the priority list
KindByPriority(n) ==
    IF Contains(n, <<"h", "o", "t", "s", "p", "o", "t">>)
       \/ Contains(n, <<"h", "s">>) THEN "HS"
    ELSE IF Contains(n, <<"s", "s", "t", "a">>) THEN "SSTA"
    ELSE IF Contains(n, <<"s", "s", "t">>) THEN "SST"
    ELSE "UNKNOWN"

\* the kinds under which files_map holds the name f
KindsOf(f) ==
    {t \in {"HS", "SSTA", "SST", "UNKNOWN"} :
        \E r \in DOMAIN files_map : \E d \in DOMAIN files_map[r] :
            t \in DOMAIN files_map[r][d] /\ files_map[r][d][t] = f}

\* C14 (SpecScan): the kind of a file is resolved on its lower-cased name in
\* the priority "hotspot" or "hs": HS, then "ssta": SSTA, then "sst": SST,
\* else UNKNOWN; a name with "hs" and "sst" is HS, and a name with "ssta"
\* and neither "hs" nor "hotspot" is never SST.
C14_KindByPriority ==
    \A i \in 1..Len(listing) :
        LET f == listing[i]
            n == Lower(f)
        IN  Passed(f) =>
              /\ KindsOf(f) \subseteq {KindByPriority(n)}
              /\ KindByPriority(n) \in
                     DOMAIN files_map[Region(n)][DateMatch(f)]
              /\ i = Len(listing) => KindsOf(f) = {KindByPriority(n)}
              /\ (Contains(n, <<"h", "s">>) /\ Contains(n, <<"s", "s", "t">>))
                     => "SST" \notin KindsOf(f)
              /\ Contains(n, <<"s", "s", "t", "a">>) => "SST" \notin KindsOf(f)

\* C14: the name with "hs" and "sst" is held as HS, the name with "ssta" as
\* SSTA, the name with "hotspot" as HS
C14_Witness ==
    /\ KindsOf(NameGnHsSst) = {"HS"}
    /\ KindsOf(NameGmSsta1) = {"SSTA"}
    /\ KindsOf(NameGmHotspot3) = {"HS"}

\* C15 (SpecScan): a file whose kind resolves to UNKNOWN is discarded: the
\* mapping holds no entry of kind UNKNOWN, so no site key and no date key
\* that such a file brought in.
C15_UnknownIsDiscarded ==
    \A r \in DOMAIN files_map : \A d \in DOMAIN files_map[r] :
        "UNKNOWN" \notin DOMAIN files_map[r][d]

\* the name has a site token and a run of 8 digits
HasSiteAndDate(f) == Region(Lower(f)) # "none" /\ DateMatch(f) # <<>>

\* C16 (SpecScan): a file whose name has no site code token or no 8-digit
\* date is skipped: the mapping and the order of its keys are those of the
\* listing without the skipped files.
C16_SkippedFileIsAbsent ==
    LET rest == Inventory(Without(listing, HasSiteAndDate))
    IN  files_map = rest.map /\ site_keys = rest.keys

\* C16: a name without a date and a name without a site were listed, the
\* first of them before the HS file of GM, and the mapping holds that file
C16_Witness ==
    /\ listing = <<NameNoDate, NameGmHs1, NameNoSite>>
    /\ DOMAIN files_map = {"GM"}
    /\ KindsOf(NameGmHs1) = {"HS"}

\* an analyzer of main() exists
HasAnalyzer == pc \in {"day", "site", "done"} /\ code # "none"

\* the dhw and the baa of the i-th record as the windows give them
WindowDhw(i) == SumSeq(LastK(SubSeq(StressOf(hist), 1, i), StressMaxLen))

WindowBaa(i) == MaxSeq(LastK(SubSeq(LevelOf(hist), 1, i), BaaMaxLen))

\* C13 (SpecMain): a site with daily files and without a baseline entry is
\* analysed with mmm = 0 and twelve monthly means of 0; its records, dhw
\* and baa are those of the windows, as for a site with a baseline, and its
\* report shows the zeros.
C13_ZeroBaseline ==
    /\ HasAnalyzer =>
          /\ code \notin DOMAIN clim_data_store =>
                mmm = 0 /\ monthly_means = [i \in 1..12 |-> 0]
          /\ Len(results_buffer) = Len(hist)
          /\ \A i \in 1..Len(hist) :
                /\ results_buffer[i].dhw = WindowDhw(i)
                /\ results_buffer[i].baa = WindowBaa(i)
    /\ \A c \in DOMAIN reports :
          c \notin DOMAIN clim_data_store =>
             /\ reports[c].mmm = 0
             /\ reports[c].monthly_means = [i \in 1..12 |-> 0]
             /\ reports[c].rows # <<>>

\* C13: GM has a baseline and GN has none; GN is reported with zeros and
\* with the record of its HS day, whose hs_90 = 1.0 gives dhw 1/7
C13_Witness ==
    /\ DOMAIN clim_data_store = {"GM"}
    /\ "GN" \in DOMAIN reports
    /\ reports["GN"].mmm = 0
    /\ Len(reports["GN"].rows) = 1
    /\ reports["GN"].rows[1].dhw = HsOne
    /\ reports["GN"].rows[1].baa = 2

\* C17 (SpecMain): in a turn of the loop over the dates of a site,
\* process_day is called if and only if the date has an HS entry: a date
\* with only SST or SSTA entries gives no call and leaves the windows, and a
\* date with an HS entry is processed whether or not it has SST and SSTA.
\* (The turn for an HS entry under 8 digits that are no calendar date ends
\* the run before the call.)
C17_CallIffHsEntry ==
    [][(pc = "day" /\ sorted_dates # <<>>) =>
        LET d_str == Head(sorted_dates)
            files == files_map[code][d_str]
        IN  /\ "HS" \notin DOMAIN files =>
                  /\ fed' = fed
                  /\ UNCHANGED <<stress_window, baa_window, call, ret, hist,
                                 results_buffer>>
            /\ ("HS" \in DOMAIN files /\ ValidDateStr(d_str)) =>
                  /\ fed' = Append(fed, StrpTime(d_str))
                  /\ call' = [hs   |-> Content(files["HS"]),
                              sst  |-> Sample(files, "SST"),
                              ssta |-> Sample(files, "SSTA")]
            /\ (fed' # fed) => "HS" \in DOMAIN files]_vars

\* C17: the dates of GN are done; 31 December, with an SSTA file only, made
\* no call, and 10 December, with an HS file only, gave the one record
C17_Witness ==
    /\ pc = "day" /\ code = "GN" /\ sorted_dates = <<>>
    /\ DOMAIN files_map["GN"] = {DateMatch(NameGnHsDec), DateMatch(NameGnSsta)}
    /\ fed = <<Date(2023, 12, 10)>>
    /\ Len(results_buffer) = 1
    /\ results_buffer[1].sst_90 = Sentinel

\* a is a day before b
DateLess(a, b) ==
    \/ a.year < b.year
    \/ a.year = b.year /\ a.month < b.month
    \/ a.year = b.year /\ a.month = b.month /\ a.day < b.day

StrictlyIncreasing(dates) ==
    \A i \in 1..Len(dates) : \A j \in 1..Len(dates) :
        i < j => DateLess(dates[i], dates[j])

\* the dates of the lines of a report
RowDates(rows) ==
    [i \in 1..Len(rows) |-> Date(rows[i].year, rows[i].month, rows[i].day)]

\* C18 (SpecMain): the process_day calls of a site carry strictly
\* increasing dates whatever the order of the listing, and the records of
\* results_buffer and the lines of the report are in that order.
C18_DatesStrictlyIncrease ==
    /\ StrictlyIncreasing(fed)
    /\ StrictlyIncreasing([i \in 1..Len(results_buffer) |->
                              results_buffer[i].date])
    /\ \A i \in 1..Len(results_buffer) :
          \E k \in 1..Len(fed) : fed[k] = results_buffer[i].date
    /\ \A c \in DOMAIN reports : StrictlyIncreasing(RowDates(reports[c].rows))
    /\ (pc = "site" /\ code \in DOMAIN reports) =>
          RowDates(reports[code].rows) =
             [i \in 1..Len(results_buffer) |-> results_buffer[i].date]

\* C18: the listing had 5 January before 3 January before 1 January; the
\* calls went 1, 3, 5 January and the report has the two records in order
C18_Witness ==
    /\ listing = <<NameGmHs5, NameGmHotspot3, NameGmHs1>>
    /\ fed = <<Date(2024, 1, 1), Date(2024, 1, 3), Date(2024, 1, 5)>>
    /\ "GM" \in DOMAIN reports
    /\ RowDates(reports["GM"].rows) = <<Date(2024, 1, 1), Date(2024, 1, 3)>>

\* the dates of the site that the loop has passed
DatesDone ==
    {d \in DOMAIN files_map[code] :
        \A i \in 1..Len(sorted_dates) : sorted_dates[i] # d}

\* the dates passed that have HS data: an HS file that reads into a
\* sample which is not empty
HsDataDays ==
    {d \in DatesDone :
        /\ "HS" \in DOMAIN files_map[code][d]
        /\ Stage(Content(files_map[code][d]["HS"]), TRUE) = "record"}

\* C19 (SpecMain): every record-returning call appends one entry to each
\* window whatever the distance of its date from the date before, and a
\* date without HS data appends nothing: a site with HS data on k of its
\* dates has k records, and its windows hold the entries of those k days.
C19_OneEntryPerRecord ==
    (pc \in {"day", "site"} /\ code # "none") =>
        /\ Len(results_buffer) = Cardinality(HsDataDays)
        /\ Len(hist) = Len(results_buffer)
        /\ stress_window = LastK(StressOf(hist), StressMaxLen)
        /\ baa_window = LastK(LevelOf(hist), BaaMaxLen)

\* C19: GM has HS data on 1 and 3 January, an empty HS sample on
\* 5 January and no file at all on 2 and 4 January: two records, two
\* entries in each window
C19_Witness ==
    /\ pc = "day" /\ code = "GM" /\ sorted_dates = <<>>
    /\ DOMAIN files_map["GM"] =
          {DateMatch(NameGmHs1), DateMatch(NameGmHotspot3), DateMatch(NameGmHs5)}
    /\ Len(results_buffer) = 2
    /\ Len(stress_window) = 2 /\ Len(baa_window) = 2
    /\ results_buffer[2].date = Date(2024, 1, 3)

\* the days of the calendar after a, up to and with b
DaysBetween(a, b) ==
    UNION {{d \in {Date(y, m, n) :
                      m \in (IF y = a.year THEN a.month ELSE 1)..
                            (IF y = b.year THEN b.month ELSE 12),
                      n \in 1..31} :
               /\ d.day <= DaysInMonth(d.year, d.month)
               /\ DateLess(a, d)
               /\ ~DateLess(b, d)} : y \in a.year..b.year}

\* b is a day of the calendar, the k-th after a
IsDaysLater(a, b, k) ==
    /\ b.month \in 1..12
    /\ b.day \in 1..DaysInMonth(b.year, b.month)
    /\ Cardinality(DaysBetween(a, b)) = k

\* a printed date as a date
AsDate(p) == Date(p[1], p[2], p[3])

\* C20 (SpecMain): in every report First Valid DHW Date is the date of the
\* first record plus 84 days and First Valid BAA Date is that date plus 7
\* days, the first record date plus 91 days, whatever the later records.
C20_ValidityDates ==
    \A c \in DOMAIN reports :
        LET first == RowDates(reports[c].rows)[1]
            dhw   == AsDate(reports[c].dhw_valid)
            baa   == AsDate(reports[c].baa_valid)
        IN  /\ IsDaysLater(first, dhw, 84)
            /\ IsDaysLater(dhw, baa, 7)
            /\ IsDaysLater(first, baa, 91)

\* C20: the first record of GN is of 10 December 2023, 84 days before
\* 3 March 2024; GM has two records, the first of 1 January 2024
C20_Witness ==
    /\ "GN" \in DOMAIN reports /\ "GM" \in DOMAIN reports
    /\ RowDates(reports["GN"].rows)[1] = Date(2023, 12, 10)
    /\ reports["GN"].dhw_valid = <<2024, 3, 3>>
    /\ reports["GN"].baa_valid = <<2024, 3, 10>>
    /\ Len(reports["GM"].rows) = 2
    /\ reports["GM"].dhw_valid = <<2024, 3, 25>>
    /\ reports["GM"].baa_valid = <<2024, 4, 1>>

\* C29 (SpecThaw): every returned record has baa between 0 and 4, dhw and
\* the reported hs not below 0, and a dhw above 0 whenever baa is 2 or
\* more; a baa of 3 or 4 can stand beside a dhw below 4.
C29_RecordRanges ==
    ret.kind = "record" =>
        /\ ret.baa \in 0..4
        /\ ret.dhw >= 0
        /\ ret.hs_90 >= 0
        /\ ret.hs_90 = (IF ret.p90 > 0 THEN ret.p90 ELSE 0)
        /\ ret.baa >= 2 => ret.dhw > 0

\* C29: day 1 had a DHW of 4.0, day 80 reached 1.0 degree at level 3, and
\* on day 85 day 1 has left the stress window: baa 3 beside a dhw of 1/7
C29_Witness ==
    /\ ret.kind = "record"
    /\ Len(hist) = StressMaxLen + 1
    /\ hist[1].dhw = DhwFour
    /\ hist[StressMaxLen - 4].level = 3
    /\ ret.baa = 3
    /\ ret.dhw = HsOne
    /\ ret.dhw < DhwFour

\* the records of results_buffer are a day apart
Daily(buffer) ==
    \A i \in 1..(Len(buffer) - 1) :
        buffer[i + 1].date = PlusDays(buffer[i].date, 1)

\* C21 (SpecSeries): the dhw of a record is the sum of a stress window that
\* holds min(n, 84) entries, n the number of records of the site up to it;
\* for a site with a record on every day from its first one, every record
\* dated on or after First Valid DHW Date has a window of 84 entries.
C21_FullWindowOfDailyRecords ==
    (pc = "day" /\ results_buffer # <<>>) =>
        LET n     == Len(results_buffer)
            first == results_buffer[1].date
            last  == results_buffer[n]
        IN  /\ Len(stress_window) = IF n < StressMaxLen THEN n ELSE StressMaxLen
            /\ last.dhw = SumSeq(stress_window)
            /\ (Daily(results_buffer)
                 /\ ~DateLess(last.date, DhwValidDate(first))) =>
                    Len(stress_window) = StressMaxLen

\* C21: the daily series has reached 25 March 2024, First Valid DHW Date
\* of a first record of 1 January: 85 records, 84 of them in the window
C21_Witness ==
    /\ pc = "day"
    /\ listing = SubSeq(SeriesDaily, 1, 85)
    /\ Len(results_buffer) = 85
    /\ results_buffer[1].date = Date(2024, 1, 1)
    /\ results_buffer[85].date = Date(2024, 3, 25)
    /\ DhwValidDate(results_buffer[1].date) = Date(2024, 3, 25)
    /\ Len(stress_window) = StressMaxLen

\* C21 as stated: for every series, every record dated on or after the
\* first record date plus 84 days has a stress window of 84 entries.
C21_FullWindowOfEverySeries ==
    (pc = "day" /\ results_buffer # <<>>) =>
        LET n == Len(results_buffer)
        IN  ~DateLess(results_buffer[n].date,
                      DhwValidDate(results_buffer[1].date)) =>
               Len(stress_window) = StressMaxLen

\* C22 (SpecSeries): the report of a site has one line for every record
\* process_day returned for it, in their order, with the date, the dhw and
\* the baa of the record as the windows gave them: the records before
\* First Valid DHW Date are lines like the others.
C22_OneRowPerRecord ==
    (pc \in {"site", "done"} /\ code \in DOMAIN reports) =>
        LET rows == reports[code].rows
        IN  /\ Len(rows) = Len(hist)
            /\ Len(rows) = Len(results_buffer)
            /\ \A i \in 1..Len(rows) :
                  /\ rows[i] = Line(results_buffer[i])
                  /\ rows[i].dhw = hist[i].dhw
                  /\ rows[i].baa = hist[i].baa
                  /\ RowDates(rows)[i] = results_buffer[i].date

\* C22: the report of the daily series of 86 days: 84 lines before
\* First Valid DHW Date, the first with the stress of one day as dhw, and
\* two lines from that date on
C22_Witness ==
    /\ pc = "site"
    /\ "GN" \in DOMAIN reports
    /\ Len(reports["GN"].rows) = 86
    /\ reports["GN"].dhw_valid = <<2024, 3, 25>>
    /\ RowDates(reports["GN"].rows)[1] = Date(2024, 1, 1)
    /\ RowDates(reports["GN"].rows)[85] = Date(2024, 3, 25)
    /\ reports["GN"].rows[1].dhw =
          DailyStress(Percentile90(Col(HsWarm.rows, "val")))
    /\ reports["GN"].rows[1].dhw < reports["GN"].rows[84].dhw

\* C23 (SpecMain): no input makes the run end in an unhandled abort; a name
\* whose 8 digits are no calendar date, on an HS file, ends as a skipped
\* file or a skipped day and the dates and sites left are processed.
C23_NoUnhandledAbort == pc # "aborted"

\* the sites of files_map with HS data on one of their dates
SitesWithData ==
    {c \in DOMAIN files_map :
        \E d \in DOMAIN files_map[c] :
            /\ "HS" \in DOMAIN files_map[c][d]
            /\ Stage(Content(files_map[c][d]["HS"]), TRUE) = "record"}

C27_RepresentativeIndex ==
    ret.kind = "record" =>
        LET vals    == Col(DropNa(call.hs.rows), "val")
            i       == ret.idx + 1
            dist(j) == Abs(10 * vals[j] - ret.p90)
        IN  /\ i \in 1..Len(vals)
            /\ \A j \in 1..Len(vals) : dist(i) <= dist(j)
            /\ \A j \in 1..(i - 1) : dist(j) > dist(i)
            /\ ret.sst_90 # Sentinel =>
                  /\ call.sst.present
                  /\ i <= Len(call.sst.vals)
                  /\ ret.sst_90 = call.sst.vals[i]
            /\ ret.ssta_90 # Sentinel =>
                  /\ call.ssta.present
                  /\ i <= Len(call.ssta.vals)
                  /\ ret.ssta_90 = call.ssta.vals[i]

\* C27: hs_90 = 1.0 is the value of the second and of the third pixel; the
\* index is that of the second, and sst_90 and ssta_90 are its values
C27_Witness ==
    /\ ret.kind = "record"
    /\ call.hs = HsOneDegree
    /\ call.sst = SstFull /\ call.ssta = SstaFull
    /\ ret.idx = 1
    /\ ret.sst_90 = 30 /\ ret.ssta_90 = 2

\* the smaller of two numbers
Min(a, b) == IF a < b THEN a ELSE b

\* C28 (SpecLong): after n record-returning calls, and any skipped calls,
\* the stress window holds min(n, 84) entries and the alert-level window
\* min(n, 7): no capacity is exceeded and both windows hold entries of the
\* same n calls.
C28_WindowLengths ==
    /\ Len(stress_window) = Min(Len(hist), StressMaxLen)
    /\ Len(baa_window) = Min(Len(hist), BaaMaxLen)
    /\ stress_window = LastK(StressOf(hist), StressMaxLen)
    /\ baa_window = LastK(LevelOf(hist), BaaMaxLen)

\* C28: calls on an unreadable HS file, skipped, and then 85 records of
\* one HS file: 84 and 7 entries
C28_Witness ==
    /\ Len(hist) = 85
    /\ changes = 1
    /\ \A i \in 1..85 : hist[i].stress = hist[1].stress
    /\ Len(stress_window) = 84
    /\ Len(baa_window) = 7

\* the site, date and kind under which each name is entered, <<>> for a
\* name that is not entered
Resolved(names) ==
    [i \in 1..Len(names) |->
        IF Passed(names[i])
        THEN <<Region(Lower(names[i])), DateMatch(names[i]),
               FileType(Lower(names[i]))>>
        ELSE <<>>]

\* no two names of the listing are entered under one site, date and kind
CollisionFree(names) ==
    \A key \in {Resolved(names)} :
        \A i \in 1..Len(names) : \A j \in 1..Len(names) :
            (i # j /\ key[i] # <<>>) => key[j] # key[i]

\* the listing with its k-th and its next name the other way round; every
\* order of the names comes from any other by such exchanges
Exchanged(names, k) ==
    [i \in 1..Len(names) |->
        IF i = k THEN names[k + 1] ELSE IF i = k + 1 THEN names[k] ELSE names[i]]

\* C30 (SpecScan): the mapping holds one source for a site, date and kind:
\* the name enumerated last among those that resolve to them; a listing
\* without two such names gives the same mapping in every order, and with
\* two the order decides.
C30_LastWriterWins ==
    /\ \A key \in {Resolved(listing)} :
           /\ \A r \in DOMAIN files_map : \A d \in DOMAIN files_map[r] :
                 \A t \in DOMAIN files_map[r][d] :
                    LET writers == {i \in 1..Len(listing) : key[i] = <<r, d, t>>}
                    IN  /\ writers # {}
                        /\ \A i \in writers :
                              (\A k \in writers : k <= i) =>
                                  files_map[r][d][t] = listing[i]
           /\ \A i \in 1..Len(listing) :
                 key[i] # <<>> =>
                    /\ key[i][1] \in DOMAIN files_map
                    /\ key[i][2] \in DOMAIN files_map[key[i][1]]
                    /\ key[i][3] \in DOMAIN files_map[key[i][1]][key[i][2]]
    /\ CollisionFree(listing) =>
          \A k \in 1..(Len(listing) - 1) :
             Inventory(Exchanged(listing, k)).map = files_map

\* C30: two HS names of GM for 3 January, then an SSTA name of GN; the
\* mapping holds the second HS name, and would hold the first one had the
\* two been enumerated the other way round
C30_Witness ==
    /\ listing = <<NameGmHotspot3, NameGmHs3, NameGnSsta>>
    /\ files_map["GM"][DateMatch(NameGmHs3)]["HS"] = NameGmHs3
    /\ Inventory(<<NameGmHs3, NameGmHotspot3, NameGnSsta>>).map
           ["GM"][DateMatch(NameGmHs3)]["HS"] = NameGmHotspot3
    /\ DOMAIN files_map = {"GM", "GN"}

\* the fields of an analyzer that are no baseline
NoBaseline(analyzer) ==
    [stress_window |-> analyzer.stress_window,
     baa_window    |-> analyzer.baa_window,
     center_lat    |-> analyzer.center_lat,
     center_lon    |-> analyzer.center_lon,
     coord_set     |-> analyzer.coord_set]

\* C25 (SpecTwin): two analyzers created with different mmm and
\* monthly_means and fed the same files call after call have returned the
\* same values at every call, records and skipped days alike, and hold the
\* same windows and the same centroid.
C25_BaselineIndependent ==
    /\ fleet["zero"].self.mmm # fleet["april"].self.mmm
    /\ fleet["zero"].self.monthly_means # fleet["april"].self.monthly_means
    /\ fleet["zero"].returned = fleet["april"].returned
    /\ NoBaseline(fleet["zero"].self) = NoBaseline(fleet["april"].self)

\* C25: three calls, the second skipped; both analyzers returned a record
\* at level 2 and then one at level 3 with a DHW above 4
C25_Witness ==
    /\ Len(fleet["april"].returned) = 3
    /\ fleet["april"].self.mmm = 2920
    /\ fleet["zero"].self.mmm = 0
    /\ fleet["april"].returned[1].kind = "record"
    /\ fleet["april"].returned[1].baa = 2
    /\ fleet["april"].returned[2].kind = "skipped"
    /\ fleet["april"].returned[3].kind = "record"
    /\ fleet["april"].returned[3].baa = 3
    /\ fleet["april"].returned[3].dhw > DhwFour
    /\ Len(fleet["zero"].self.stress_window) = 2

\* the analyzer of the site c after its first k calls, with no other
\* analyzer about
RECURSIVE Alone(_, _)
Alone(c, k) ==
    IF k = 0 THEN Fleet[c] ELSE Fed(Alone(c, k - 1), Feed(c)[k])

C26_EqualsAlone ==
    \A c \in DOMAIN fleet : fleet[c] = Alone(c, Len(fleet[c].returned))

C26_OthersUnchanged ==
    \A c \in DOMAIN fleet :
        fleet'[c] # fleet[c] =>
            \A o \in DOMAIN fleet \ {c} : fleet'[o] = fleet[o]

\* C26 (SpecFleet): under every interleaving of the calls of the sites the
\* windows, the centroid and the returned values of every site are those
\* of the site processed alone, and a call on the analyzer of one site
\* leaves the analyzers of the other sites as they were.
C26_SitesIndependent == []C26_EqualsAlone /\ [][C26_OthersUnchanged]_vars

\* C26: every site has had its four calls; GM and GN hold different
\* windows and centroids, NP has one skipped call and three records
C26_Witness ==
    /\ \A c \in DOMAIN fleet : Len(fleet[c].returned) = 4
    /\ fleet["GM"].self.stress_window # fleet["GN"].self.stress_window
    /\ fleet["GM"].self.center_lon # fleet["GN"].self.center_lon
    /\ Len(fleet["GM"].self.stress_window) = 3
    /\ Len(fleet["GN"].self.stress_window) = 4
    /\ fleet["NP"].returned[1].kind = "skipped"
    /\ Len(fleet["NP"].self.baa_window) = 3
    /\ fleet["GM"].self.mmm # fleet["GN"].self.mmm

====
